---- MODULE Spec2Model ----
(***************************************************************************)
(* Invisibrow: the task scheduler (QueueEngine), the shared PlanerAgent    *)
(* it drives, the intervention handshake over the EventBus and the TUI    *)
(* handlers that submit, stop and confirm.                                 *)
(*                                                                         *)
(* One action is one turn of the JavaScript event loop: a handler runs    *)
(* to its next real suspension (an LLM call, an Executor run, a timer, a  *)
(* browser start, an EventBus wait); promise continuations that follow    *)
(* without I/O belong to the same turn.                                    *)
(***************************************************************************)
EXTENDS Integers, Sequences, FiniteSets, TLC

\* ---- bounds of the model ----
MaxTasks == 2          \* tasks submitted in one behaviour
MaxClock == 2          \* distinct timestamps new Date() can return
MaxPlanCalls == 1      \* plan-step LLM calls of one task that get an answer

MaxExecutorSteps == 2  \* iterations of one Executor invocation that get answers
MaxPromptTokens == 15  \* prompt tokens of one task whose answers arrive
MaxAgentTasks == 3     \* tasks submitted while the BrowserAgents are followed
MaxCountedSteps == 15  \* plan-step calls of the one task followed to the limit
MaxIterations == 16    \* iterations of the one Executor invocation followed
                       \* to the limit

\* ---- program constants ----
maxSteps == 15
executorMaxSteps == 15

MaxSessionTokens == 3  \* tokens of one session whose cost is followed
MaxRecords == 6        \* rows of the table memories
MaxReplaceRows == 2    \* a save replaces a stored record only while the
                       \* table has at most this many rows
MaxStepRecords == 4    \* step records of one task that are followed

\* LIMIT of MemoryService.search
searchLimit == 5

Sessions == {"s1", "s2"}

\* new QueueEngine() runs two jobs at a time; one at a time is the other
\* configuration the model covers
Concurrencies == {1, 2}
TaskIds == 1..MaxAgentTasks

VARIABLES
  concurrency,     \* QueueEngine constructor argument (PQueue concurrency)
  uiTest,          \* process.env.UI_TEST === 'true'
  tasks,           \* QueueEngine.tasks, in insertion order; the id is the index
  queue,           \* PQueue: ids of the jobs waiting for a slot, FIFO
  active,          \* PQueue: ids of the jobs that hold a slot
  runningAborts,   \* QueueEngine.runningAborts (ids that have a controller)
  aborted,         \* ids whose controller.signal.aborted is true
  pc,              \* where each task's job is suspended
  currentStep,     \* PlanerAgent.execute: let currentStep, per job
  planer,          \* the one PlanerAgent: its sessionId field and its
                   \* browserAgent (taskId is written and never read)
  browser,         \* PlanerAgent.execute: const browser, per job
  sessionHistoryContext,  \* PlanerAgent.execute: const sessionHistoryContext,
                   \* per job, as the task ids of the entries joined into it
  liveBrowsers,    \* the BrowserAgents whose BrowserManager has launched a
                   \* browser process (nothing ever closes one)
  headless,        \* BrowserManager.headless, per BrowserAgent (known by
                   \* the job that created it)
  isVerifying,     \* PersistedSession.isVerifying, per session
  sessionsFile,    \* isVerifying as last written to sessions.json
  memories,        \* ids of the MemoryRecords saved (status success)
  sessionHistory,  \* PersistedSession.sessionHistory: task ids, in order
  clock,           \* last value returned by new Date()
  executorStep,    \* BrowserAgent.runAutomation: let currentStep, per job
  tokenUsage,      \* AgentTask.tokenUsage, per task (absent is all zero)
  tasksFile,       \* tokenUsage as last written to tasks.json
  steps,           \* AgentTask.steps, per task: the step records in the
                   \* order of the pushes (absent is empty)
  stepsFile,       \* steps as last written to tasks.json
  stats,           \* PersistedSession.stats: tokens and cachedTokens
  observed,        \* the stopTask call or verification_resolved emission of
                   \* the last turn, where the specification records them
  handshake,       \* per job: the session its verification_needed named,
                   \* whether verification_resolved for it was emitted since,
                   \* and the listeners its waitForVerification has on the
                   \* EventBus and on the signal
  memoriesTable,   \* memory.sqlite, table memories: the rows in rowid order
  savedKeywords,          \* per record id, the keywords last handed to save
  tieBreak,        \* how this build of SQLite orders rows of equal timestamp
  botKeywordsTable, \* memory.sqlite, table bot_keywords: the rows in the
                   \* order they were inserted
  watchdogs,       \* per session, the WatchdogAgent of its BrowserAgent:
                   \* keywordsLoaded and botKeywords
  cost,            \* per session, whether AppState lists it, and its
                   \* stats.cost in thousand-millionths of a dollar

  lastCall         \* the last call of the MemoryService, of a keyword scan
                   \* or of estimateCost, with what it returned

vars == <<concurrency, uiTest, tasks, queue, active, runningAborts, aborted,
          pc, currentStep, planer, isVerifying, sessionsFile, memories,
          sessionHistory, clock, executorStep, tokenUsage, tasksFile, stats,
          steps, stepsFile, observed, handshake,
          browser, liveBrowsers, headless, sessionHistoryContext,
          memoriesTable, savedKeywords, tieBreak, botKeywordsTable, watchdogs,
          cost, lastCall>>

\* the state of the MemoryService, of the Watchdogs and of the cost
\* accounting, which the steps of the scheduler leave alone
serviceVars ==
  <<memoriesTable, savedKeywords, tieBreak, botKeywordsTable, watchdogs, cost,
    lastCall>>

\* the state of the scheduler, which the calls of the services leave alone
schedulerVars ==
  <<concurrency, uiTest, tasks, queue, active, runningAborts, aborted,
    pc, currentStep, planer, isVerifying, sessionsFile, memories,
    sessionHistory, executorStep, tokenUsage, tasksFile, stats,
    steps, stepsFile, observed, handshake, browser, liveBrowsers,
    headless, sessionHistoryContext>>

Terminal == {"completed", "failed", "cancelled"}

\* the usage of a response that carries none (`?? 0`)
noUsage == [promptTokens |-> 0, cachedTokens |-> 0, completionTokens |-> 0]

\* the usage a response carries where the specification follows the tokens
Usages == {[promptTokens |-> 3, cachedTokens |-> 1, completionTokens |-> 2]}

NoObservation ==
  [op |-> "none", task |-> 0, sessionId |-> "none", usage |-> noUsage]

noTokens == [inputTokens |-> 0, cachedTokens |-> 0, outputTokens |-> 0]

NoHandshake == [sessionId |-> "none", resolved |-> FALSE, listeners |-> {}]

\* new Date(): not before the last timestamp handed out
Now == {ts \in clock..(clock + 1) : ts <= MaxClock}

\* a BrowserAgent is known by the job whose execute created it
noBrowserAgent == [id |-> 0, sessionId |-> "none"]

newPlaner == [sessionId |-> "default", browserAgent |-> noBrowserAgent]

\* ---------------------------------------------------------------------
\* Strings are sequences of characters; a character outside ASCII is
\* written by its code point.
\* ---------------------------------------------------------------------
upperCase ==
  [A |-> "a", B |-> "b", C |-> "c", H |-> "h", O |-> "o", P |-> "p",
   R |-> "r", T |-> "t"]

\* String.prototype.toLowerCase on the characters the model uses
toLowerCase(str) ==
  [i \in DOMAIN str |->
     IF str[i] \in DOMAIN upperCase THEN upperCase[str[i]] ELSE str[i]]

whiteSpace == {" ", "\t", "\n"}

\* String.prototype.trim
RECURSIVE trim(_)
trim(str) ==
  IF str = <<>> THEN <<>>
  ELSE IF Head(str) \in whiteSpace THEN trim(Tail(str))
  ELSE IF str[Len(str)] \in whiteSpace
    THEN trim(SubSeq(str, 1, Len(str) - 1))
  ELSE str

\* Array.prototype.join
RECURSIVE join(_, _)
join(list, sep) ==
  IF list = <<>> THEN <<>>
  ELSE IF Len(list) = 1 THEN Head(list)
  ELSE Head(list) \o sep \o join(Tail(list), sep)

\* String.prototype.split on a separator of one character: the empty
\* string gives one empty piece
RECURSIVE split(_, _)
split(str, sep) ==
  IF \A i \in DOMAIN str : str[i] # sep THEN <<str>>
  ELSE LET i == CHOOSE j \in DOMAIN str :
                  str[j] = sep /\ \A k \in 1..(j - 1) : str[k] # sep
       IN  <<SubSeq(str, 1, i - 1)>> \o split(SubSeq(str, i + 1, Len(str)), sep)

\* String.prototype.includes
includes(str, sub) ==
  \E i \in 0..(Len(str) - Len(sub)) : SubSeq(str, i + 1, i + Len(sub)) = sub

\* the elements of a list
Range(list) == {list[i] : i \in DOMAIN list}

DEFAULT_BOT_KEYWORDS ==
  <<
    <<"c", "a", "p", "t", "c", "h", "a">>,
    <<"v", "e", "r", "i", "f", "y", " ", "y", "o", "u", " ", "a", "r", "e",
      " ", "h", "u", "m", "a", "n">>,
    <<"a", "r", "e", " ", "y", "o", "u", " ", "a", " ", "r", "o", "b", "o",
      "t">>,
    <<"U+5075", "U+6E2C", "U+5230", "U+7570", "U+5E38", "U+6D41", "U+91CF">>,
    <<"U+8ACB", "U+8B49", "U+660E", "U+4F60", "U+4E0D", "U+662F", "U+6A5F",
      "U+5668", "U+4EBA">>,
    <<"g", "o", "o", "g", "l", "e", " ", "U+9A57", "U+8B49", "U+9801",
      "U+9762">>
  >>

\* ---------------------------------------------------------------------
\* MemoryService: construction
\* ---------------------------------------------------------------------
MemoryIds == 1..MaxRecords

\* ORDER BY leaves the order of rows of equal key to the build of SQLite:
\* it is the same at every query of one build, in rowid order or against it
TieBreaks == {"rowid", "reverse"}

\* a keyword stored as it was given
notNormalized(value) == value

normalizeKeyword(value) == toLowerCase(trim(value))

\* INSERT OR IGNORE INTO bot_keywords (keyword), created_at by default
insertOrIgnore(table, keyword, ts) ==
  IF \E i \in DOMAIN table : table[i].keyword = keyword THEN table
  ELSE Append(table, [keyword |-> keyword, created_at |-> ts])

RECURSIVE insertAll(_, _, _)
insertAll(table, keywords, ts) ==
  IF keywords = <<>> THEN table
  ELSE insertAll(insertOrIgnore(table, normalizeKeyword(Head(keywords)), ts),
                 Tail(keywords), ts)

seedDefaultBotKeywords(table, ts) == insertAll(table, DEFAULT_BOT_KEYWORDS, ts)

\* new MemoryService() on a machine without memory.sqlite
newMemoryService(c) ==
  /\ memoriesTable = <<>>
  /\ savedKeywords = [id \in MemoryIds |-> <<>>]
  /\ botKeywordsTable = seedDefaultBotKeywords(<<>>, c)

newWatchdogAgent == [keywordsLoaded |-> FALSE, botKeywords |-> <<>>]

NoReturn == [op |-> "none", args |-> <<>>, result |-> <<>>]

\* the state after the constructors have run on empty storage, at time c
Boot(c) ==
  /\ concurrency \in Concurrencies
  /\ uiTest \in BOOLEAN
  /\ tasks = <<>>
  /\ queue = <<>>
  /\ active = {}
  /\ runningAborts = {}
  /\ aborted = {}
  /\ pc = [t \in TaskIds |-> "none"]
  /\ currentStep = [t \in TaskIds |-> 0]
  /\ planer = newPlaner
  /\ browser = [t \in TaskIds |-> noBrowserAgent]
  /\ sessionHistoryContext = [t \in TaskIds |-> <<>>]
  /\ liveBrowsers = {}
  /\ headless = [a \in TaskIds |-> TRUE]
  /\ isVerifying = [s \in Sessions |-> FALSE]
  /\ sessionsFile = [s \in Sessions |-> FALSE]
  /\ memories = {}
  /\ sessionHistory = [s \in Sessions |-> <<>>]
  /\ clock = c
  /\ executorStep = [t \in TaskIds |-> 0]
  /\ tokenUsage = [t \in TaskIds |-> noTokens]
  /\ tasksFile = [t \in TaskIds |-> noTokens]
  /\ steps = [t \in TaskIds |-> <<>>]
  /\ stepsFile = [t \in TaskIds |-> <<>>]
  /\ stats = [s \in Sessions |-> [tokens |-> 0, cachedTokens |-> 0]]
  /\ observed = NoObservation
  /\ handshake = [t \in TaskIds |-> NoHandshake]
  /\ newMemoryService(c)
  /\ watchdogs = [s \in Sessions |-> newWatchdogAgent]
  /\ cost = [s \in Sessions |-> [listed |-> TRUE, cost |-> 0]]
  /\ lastCall = NoReturn

\* ---------------------------------------------------------------------
\* PlanerAgent.execute, as the value it hands back at the end of a turn:
\* either it is suspended at pc with its step counter, or it has returned
\* an AgentResponse (status, message).
\* ---------------------------------------------------------------------
Suspend(p, n) ==
  [kind |-> "suspend", pc |-> p, step |-> n, status |-> "none", message |-> "none"]

Return(st, msg) ==
  [kind |-> "return", pc |-> "done", step |-> 0, status |-> st, message |-> msg]

\* catch (error) { return { status: 'failed', message: error.message } }
Throw(msg) == Return("failed", msg)

whileLoopOneMore(t, n) ==
  IF n <= maxSteps
    THEN IF t \in aborted THEN Throw("User aborted")
         ELSE Suspend("planNextStep", n + 1)
    ELSE Throw("max steps")

\* top of `while (currentStep < maxSteps)`: the signal check, currentStep++
\* and the call of planNextStep; past the loop, the max-steps error
whileLoop(t, n) ==
  IF n < maxSteps
    THEN IF t \in aborted THEN Throw("User aborted")
         ELSE Suspend("planNextStep", n + 1)
    ELSE Throw("max steps")

\* ---------------------------------------------------------------------
\* QueueEngine
\* ---------------------------------------------------------------------
loadTasksResetsToPending(t) ==
  IF t.status \in {"running", "pending"}
    THEN [t EXCEPT !.status = "pending", !.error = "restart"]
    ELSE t

loadTasksFailsAll(t) == [t EXCEPT !.status = "failed", !.error = "restart"]

\* loadTasks, the forEach body: an interrupted task becomes failed
loadTasks(t) ==
  IF t.status \in {"running", "pending"}
    THEN [t EXCEPT !.status = "failed", !.error = "restart"]
    ELSE t

stopTaskGuard(t) == tasks[t].status = "running"

settleIgnoringSignal(rec, res, ab, ts) ==
  IF res.status = "failed"
    THEN IF res.message = "User aborted"
           THEN [rec EXCEPT !.status = "cancelled", !.completedAt = ts]
           ELSE [rec EXCEPT !.status = "failed", !.error = res.message,
                            !.completedAt = ts]
    ELSE [rec EXCEPT !.status = "completed", !.completedAt = ts]

settleIgnoringFailure(rec, res, ab, ts) ==
  IF ab \/ (res.status = "failed" /\ res.message = "User aborted")
    THEN [rec EXCEPT !.status = "cancelled", !.completedAt = ts]
    ELSE [rec EXCEPT !.status = "completed", !.completedAt = ts]

\* the job after `await this.planer.execute(...)`: the aborted check, the
\* failed check, then completed, or the catch block; ab is signal.aborted
settle(rec, res, ab, ts) ==
  IF ab \/ (res.status = "failed" /\ res.message = "User aborted")
    THEN [rec EXCEPT !.status = "cancelled", !.completedAt = ts]
    ELSE IF res.status = "failed"
      THEN [rec EXCEPT !.status = "failed", !.error = res.message,
                       !.completedAt = ts]
      ELSE [rec EXCEPT !.status = "completed", !.completedAt = ts]

gateNewestFirst(tk, q, returned) ==
  IF q = <<>>
    THEN [started |-> 0, queue |-> <<>>, returned |-> returned]
    ELSE [started |-> q[Len(q)], queue |-> SubSeq(q, 1, Len(q) - 1),
          returned |-> returned]

\* PQueue hands the freed slot to the next job; a job that finds its task
\* cancelled returns at the gate and the slot goes to the one behind it
RECURSIVE gate(_, _, _)
gate(tk, q, returned) ==
  IF q = <<>>
    THEN [started |-> 0, queue |-> <<>>, returned |-> returned]
    ELSE IF tk[Head(q)].status = "cancelled"
      THEN gate(tk, Tail(q), returned \cup {Head(q)})
      ELSE [started |-> Head(q), queue |-> Tail(q), returned |-> returned]

\* where a job that passed the gate first suspends
firstAwait == IF uiTest THEN "mockSleep" ELSE "extractKeywords"

\* PlanerAgent.execute up to its first await: the instance fields are
\* overwritten and the Executor is re-created when the session differs
getBrowserAgent(t, sessionId) ==
  IF planer.browserAgent = noBrowserAgent
       \/ planer.browserAgent.sessionId # sessionId
    THEN [id |-> t, sessionId |-> sessionId]
    ELSE planer.browserAgent

executeEntry(t, sessionId) ==
  IF uiTest THEN planer
  ELSE [sessionId |-> sessionId, browserAgent |-> getBrowserAgent(t, sessionId)]

getSessionHistoryEmpty(h, s) == <<>>

\* AppState.submitTask.getSessionHistory on the histories h
getSessionHistory(h, s) == h[s]

\* the history entry of a finish is handed to onSessionHistoryUpdate before
\* execute returns success: the histories as the turn of job t leaves them
onSessionHistoryUpdate(t, out) ==
  IF ~uiTest /\ out.kind = "return" /\ out.status = "success"
    THEN [sessionHistory EXCEPT ![tasks[t].sessionId] = Append(@, t)]
    ELSE sessionHistory

\* `sessionHistory: opts?.getSessionHistory?.()` of job t and the join of
\* its entries at the entry of execute; under UI_TEST neither is evaluated
joinHistory(t, sessionId, h) ==
  [sessionHistoryContext EXCEPT
     ![t] = IF uiTest THEN <<>> ELSE getSessionHistory(h, sessionId)]

\* `const browser = this.getBrowserAgent(...)` of job t; under UI_TEST the
\* job never calls the planner
constBrowser(t, sessionId) ==
  [browser EXCEPT ![t] = IF uiTest THEN noBrowserAgent
                         ELSE getBrowserAgent(t, sessionId)]

\* `config?.headless ?? true`: the tasks are submitted in the default mode
normalizedHeadless == TRUE

\* BrowserAgent.setHeadless(val) on the flags h
setHeadless(h, agent, val) == [h EXCEPT ![agent.id] = val]

\* getBrowserAgent at the entry of execute of job t ends with
\* setHeadless(headless) on the agent it hands out
headlessAtEntry(h, t, sessionId) ==
  IF uiTest THEN h
  ELSE setHeadless(h, getBrowserAgent(t, sessionId), normalizedHeadless)

hasFreeSlotOffByOne == Cardinality(active) <= concurrency

\* PQueue: a job starts only while fewer than `concurrency` jobs hold a slot
hasFreeSlot == Cardinality(active) < concurrency

\* addTask: the task record, its controller, and queue.add of the job
addTaskWithin(n, s, save) ==
  /\ Len(tasks) < n
  /\ LET id == Len(tasks) + 1
         rec == [sessionId |-> s, status |-> "pending", completedAt |-> 0,
                 error |-> "none"]
     IN  /\ runningAborts' = runningAborts \cup {id}
         /\ IF hasFreeSlot
              THEN /\ tasks' = Append(tasks, [rec EXCEPT !.status = "running"])
                   /\ active' = active \cup {id}
                   /\ pc' = [pc EXCEPT ![id] = firstAwait]
                   /\ planer' = executeEntry(id, s)
                   /\ browser' = constBrowser(id, s)
                   /\ headless' = headlessAtEntry(headless, id, s)
                   /\ sessionHistoryContext' =
                        joinHistory(id, s, sessionHistory)
                   /\ UNCHANGED queue
              ELSE /\ tasks' = Append(tasks, rec)
                   /\ queue' = Append(queue, id)
                   /\ pc' = [pc EXCEPT ![id] = "queued"]
                   /\ UNCHANGED <<active, planer, browser, headless,
                                  sessionHistoryContext>>
  /\ sessionsFile' = IF save THEN isVerifying ELSE sessionsFile
  /\ tasksFile' = tokenUsage
  /\ stepsFile' = steps
  /\ UNCHANGED steps
  /\ observed' = NoObservation
  /\ UNCHANGED <<concurrency, uiTest, serviceVars, executorStep, liveBrowsers, aborted,
                 currentStep, isVerifying, memories, sessionHistory, clock,
                 handshake, tokenUsage, stats>>

addTask(s, save) == addTaskWithin(MaxTasks, s, save)

\* end of a turn of task t's job, run on the task records tk: it stays
\* suspended, or the planner has returned and the job settles the task,
\* frees its slot and controller, and PQueue starts the next job
\* h holds the headless flags as the turn has set them
endTurnWith(t, out, ab, ts, tk, h) ==
  IF out.kind = "suspend"
    THEN /\ pc' = [pc EXCEPT ![t] = out.pc]
         /\ currentStep' = [currentStep EXCEPT ![t] = out.step]
         /\ tasks' = tk
         /\ clock' = clock
         /\ headless' = h
         /\ UNCHANGED <<queue, active, runningAborts, planer, browser,
                        sessionHistoryContext>>
    ELSE LET settled == [tk EXCEPT ![t] = settle(@, out, ab, ts)]
             g == gate(settled, queue, {})
         IN  /\ queue' = g.queue
             /\ runningAborts' = runningAborts \ ({t} \cup g.returned)
             /\ currentStep' = [currentStep EXCEPT ![t] = 0]
             /\ clock' = ts
             /\ IF g.started = 0
                  THEN /\ tasks' = settled
                       /\ active' = active \ {t}
                       /\ pc' = [u \in TaskIds |->
                                   IF u = t \/ u \in g.returned THEN "done"
                                   ELSE pc[u]]
                       /\ headless' = h
                       /\ UNCHANGED <<planer, browser, sessionHistoryContext>>
                  ELSE /\ tasks' = [settled EXCEPT ![g.started].status = "running"]
                       /\ active' = (active \ {t}) \cup {g.started}
                       /\ pc' = [u \in TaskIds |->
                                   IF u = t \/ u \in g.returned THEN "done"
                                   ELSE IF u = g.started THEN firstAwait
                                   ELSE pc[u]]
                       /\ planer' = executeEntry(g.started,
                                                 settled[g.started].sessionId)
                       /\ browser' = constBrowser(g.started,
                                                  settled[g.started].sessionId)
                       /\ headless' =
                            headlessAtEntry(h, g.started,
                                            settled[g.started].sessionId)
                       /\ sessionHistoryContext' =
                            joinHistory(g.started,
                                        settled[g.started].sessionId,
                                        onSessionHistoryUpdate(t, out))

endTurn(t, out, ab, ts, tk) == endTurnWith(t, out, ab, ts, tk, headless)

\* AppState.submitTask.onTokenUsage ends in saveSessions()
saveSessions == sessionsFile' = isVerifying

\* QueueEngine's onTokenUsage: the usage is added to the task's tokenUsage
addUsage(tu, u) ==
  [inputTokens |-> tu.inputTokens + u.promptTokens,
   cachedTokens |-> tu.cachedTokens + u.cachedTokens,
   outputTokens |-> tu.outputTokens + u.completionTokens]

\* AppState's onTokenUsage: the session's stats grow
addStats(st, u) ==
  [tokens |-> st.tokens + u.promptTokens + u.completionTokens,
   cachedTokens |-> st.cachedTokens + u.cachedTokens]

\* the token side of a turn of task t: MessageLogger.log calls onTokenUsage
\* if the call site reported the usage u, and saveTasks writes the tasks
\* if the turn reached one (onStep, or the end of the job)
onTokenUsage(t, reported, u, saved) ==
  LET tu == IF reported THEN [tokenUsage EXCEPT ![t] = addUsage(@, u)]
            ELSE tokenUsage
  IN  /\ tokenUsage' = tu
      /\ stats' = IF reported
                    THEN [stats EXCEPT ![tasks[t].sessionId] = addStats(@, u)]
                  ELSE stats
      /\ IF reported THEN saveSessions ELSE UNCHANGED sessionsFile
      /\ tasksFile' = IF saved THEN tu ELSE tasksFile

\* a push that is not followed by saveTasks()
addStepUnsaved(t, step) ==
  /\ steps' = [steps EXCEPT ![t] = Append(@, step)]
  /\ UNCHANGED stepsFile

\* QueueEngine.addStep: the record is pushed on task.steps, then
\* saveTasks() writes the tasks
addStep(t, step) ==
  /\ steps' = [steps EXCEPT ![t] = Append(@, step)]
  /\ stepsFile' = steps'

\* a turn of a job that calls no onStep: saveTasks writes the records
\* there are if the turn reached one
noStep(saved) ==
  /\ stepsFile' = IF saved THEN steps ELSE stepsFile
  /\ UNCHANGED steps

\* `onStep?.({agent, step, ...})` of the job of task t, which is
\* `(step) => this.addStep(taskId, step)`; the records are followed where
\* watch names them
onStep(t, agent, step, called, saved, watch) ==
  IF called /\ "steps" \in watch
    THEN addStep(t, [agent |-> agent, step |-> step])
  ELSE noStep(saved)

\* a turn without LLM answer
saveTasks(saved) ==
  /\ tasksFile' = IF saved THEN tokenUsage ELSE tasksFile
  /\ noStep(saved)
  /\ UNCHANGED <<tokenUsage, stats>>

\* the answer of an LLM call of task t as the specification records it
llmObserved(t, arrived, u, watch) ==
  IF "llm" \in watch /\ arrived
    THEN [op |-> "llm", task |-> t, sessionId |-> tasks[t].sessionId, usage |-> u]
  ELSE NoObservation

\* an answer with usage u arrives only within the budget of the model
withinBudget(t, u) ==
  tokenUsage[t].inputTokens + u.promptTokens <= MaxPromptTokens

\* the results an LLM call can have: a usable answer, an answer that does
\* not parse (usage is reported, then JSON.parse throws), no answer at all
LLMResults == {"ok", "malformed", "transport"}

reportsUsage(r) == r # "transport"

\* ---------------------------------------------------------------------
\* PlanerAgent.execute, one action per await
\* ---------------------------------------------------------------------
\* extractKeywords returns; memoryService.search; the loop is entered
extractKeywords(t, r, u, watch) ==
  /\ pc[t] = "extractKeywords"
  /\ reportsUsage(r) => withinBudget(t, u)
  /\ LET out == IF r = "ok" THEN whileLoop(t, 0) ELSE Throw("llm fault")
     IN  /\ \E ts \in Now : endTurn(t, out, t \in aborted, ts, tasks)
         /\ onTokenUsage(t, reportsUsage(r), u, out.kind = "return")
         /\ noStep(out.kind = "return")
  /\ observed' = llmObserved(t, r # "transport", u, watch)
  /\ UNCHANGED <<concurrency, uiTest, serviceVars, executorStep, liveBrowsers, aborted,
                 isVerifying, memories, sessionHistory, handshake>>

PlanCommands == {"browser", "finish", "wait", "other"}

\* what follows `onStep?.(...)` for the command the plan-step names
afterPlanStep(t, command) ==
  CASE command = "finish" -> Return("success", "none")
    [] command = "browser" ->
         IF t \in aborted THEN Throw("User aborted")
         ELSE Suspend("browser", currentStep[t])
    [] command = "wait" ->
         IF t \in aborted THEN Throw("User aborted")
         ELSE Suspend("wait", currentStep[t])
    [] OTHER -> whileLoop(t, currentStep[t])

\* planNextStep returns: on finish the MemoryRecord is saved and the
\* history entry handed to onSessionHistoryUpdate
planNextStepWithin(n, t, r, command, u, watch) ==
  /\ pc[t] = "planNextStep"
  /\ currentStep[t] <= n
  /\ reportsUsage(r) => withinBudget(t, u)
  /\ LET out == IF r = "ok" THEN afterPlanStep(t, command)
                ELSE Throw("llm fault")
     IN  /\ \E ts \in Now : endTurn(t, out, t \in aborted, ts, tasks)
         /\ sessionHistory' = onSessionHistoryUpdate(t, out)
  /\ memories' = IF r = "ok" /\ command = "finish" THEN memories \cup {t}
                 ELSE memories
  /\ onTokenUsage(t, reportsUsage(r), u, TRUE)
  /\ onStep(t, "planer", currentStep[t], r = "ok", TRUE, watch)
  /\ observed' = llmObserved(t, r # "transport", u, watch)
  /\ UNCHANGED <<concurrency, uiTest, serviceVars, executorStep, liveBrowsers, aborted,
                 isVerifying, handshake>>

planNextStep(t, r, command, u, watch) ==
  planNextStepWithin(MaxPlanCalls, t, r, command, u, watch)

\* an LLM call inside the running Executor reports its usage
browserTokenUsage(t, u) ==
  /\ pc[t] = "browser"
  /\ withinBudget(t, u)
  /\ onTokenUsage(t, TRUE, u, FALSE)
  /\ noStep(FALSE)
  /\ observed' = NoObservation
  /\ UNCHANGED <<concurrency, uiTest, serviceVars, executorStep, liveBrowsers, tasks,
                 queue, active, runningAborts, aborted, pc, currentStep,
                 planer, browser, headless, sessionHistoryContext,
                 isVerifying, memories, sessionHistory, clock, handshake>>

ExecutorResults == {"success", "intervention", "failed"}

\* handleIntervention up to its first await: verification_needed is
\* emitted with the planner's sessionId field, the App listener flags that
\* session, and the browser is switched to GUI mode
handleIntervention(t) ==
  /\ isVerifying' = [isVerifying EXCEPT ![planer.sessionId] = TRUE]
  /\ handshake' = [handshake EXCEPT
                     ![t] = [sessionId |-> planer.sessionId, resolved |-> FALSE,
                             listeners |-> {}]]

interventionCounted(t) == currentStep[t]

\* `if (currentStep > 0) currentStep--` before handleIntervention
interventionNotCounted(t) ==
  IF currentStep[t] > 0 THEN currentStep[t] - 1 ELSE currentStep[t]

\* what PlanerAgent.execute does with the result r of browser.execute
executeOutcome(t, r) ==
  CASE r = "intervention" -> Suspend("switchGui", interventionNotCounted(t))
    [] r = "failed" -> Throw("browser failed")
    [] r = "max steps" -> Throw("browser failed: max steps")
    [] OTHER -> whileLoop(t, currentStep[t])

\* browser.execute has returned r: PlanerAgent.execute goes on
executeReturned(t, r) ==
  /\ \E ts \in Now :
       endTurnWith(t, executeOutcome(t, r), t \in aborted, ts, tasks,
                   IF r = "intervention"
                     THEN setHeadless(headless, browser[t], FALSE)
                   ELSE headless)
  /\ IF r = "intervention"
       THEN handleIntervention(t)
       ELSE UNCHANGED <<isVerifying, handshake>>
  /\ executorStep' = [executorStep EXCEPT ![t] = 0]
  /\ UNCHANGED <<concurrency, uiTest, serviceVars, aborted, memories, sessionHistory>>

\* browserMgr.init() of job t's BrowserAgent: puppeteer.launch has given a
\* browser process, or the one launched before is still connected
browserMgrInit(t, launched) ==
  liveBrowsers' = IF launched THEN liveBrowsers \cup {browser[t]}
                  ELSE liveBrowsers

\* browser.execute returns, the Executor invocation taken as a whole; it
\* can fail before or after the launch
browserExecute(t, r) ==
  /\ pc[t] = "browser"
  /\ executeReturned(t, r)
  /\ \E launched \in BOOLEAN :
       /\ r # "failed" => launched
       /\ browserMgrInit(t, launched)
  /\ saveTasks(executeOutcome(t, r).kind = "return")
  /\ observed' = NoObservation
  /\ UNCHANGED sessionsFile

\* ---------------------------------------------------------------------
\* BrowserAgent.runAutomation, one action per await. The Executor is not
\* handed the signal.
\* ---------------------------------------------------------------------
\* the Executor stays inside runAutomation, suspended at p
executorContinues(t, p) ==
  /\ pc' = [pc EXCEPT ![t] = p]
  /\ UNCHANGED <<concurrency, uiTest, serviceVars, tasks, queue, active, runningAborts,
                 aborted, currentStep, planer, browser, headless,
                 sessionHistoryContext, isVerifying, memories,
                 sessionHistory, clock, executorStep, liveBrowsers, handshake>>

\* top of `while (currentStep < 15)`: browserMgr.init(), or the page action
\* and settle sleep of the iteration before, is over; currentStep++ and
\* getPageState is called
\* a loop that goes round once more
loopGoesOnOneMore(t) == executorStep[t] <= executorMaxSteps

\* `while (currentStep < 15)`
loopGoesOn(t) == executorStep[t] < executorMaxSteps

runAutomationWithin(n, t) ==
  /\ pc[t] \in {"browser", "performAction"}
  /\ loopGoesOn(t)
  /\ executorStep[t] < n
  /\ pc' = [pc EXCEPT ![t] = "getPageState"]
  /\ executorStep' = [executorStep EXCEPT ![t] = @ + 1]
  /\ browserMgrInit(t, TRUE)
  /\ observed' = NoObservation
  /\ UNCHANGED <<concurrency, uiTest, serviceVars, tasks, queue, active, runningAborts,
                 aborted, currentStep, planer, browser, headless,
                 sessionHistoryContext, isVerifying, sessionsFile, memories,
                 sessionHistory, clock, handshake, tokenUsage, tasksFile,
                 steps, stepsFile, stats>>

runAutomation(t) == runAutomationWithin(MaxExecutorSteps, t)

\* browserMgr.init() or getPageState throws, or the loop is left after the
\* last iteration with the max-steps error: execute catches and returns
\* failed with the message of the error
executorThrows(t) ==
  /\ \/ pc[t] \in {"browser", "getPageState"}
     \/ pc[t] = "performAction" /\ ~loopGoesOn(t)
  /\ executeReturned(t, IF pc[t] = "performAction" THEN "max steps"
                        ELSE "failed")
  /\ saveTasks(TRUE)
  /\ observed' = NoObservation
  /\ UNCHANGED sessionsFile
  /\ UNCHANGED liveBrowsers

\* a keyword scan whose hit is confirmed by an LLM call before it is returned
keywordScanAfterLLM(t, hit) ==
  /\ pc[t] = "getPageState"
  /\ IF hit THEN executeReturned(t, "intervention")
     ELSE executorContinues(t, "watchdog")
  /\ onTokenUsage(t, hit, CHOOSE u \in Usages : TRUE, FALSE)
  /\ noStep(FALSE)
  /\ observed' = NoObservation
  /\ UNCHANGED liveBrowsers

\* what a call of page.evaluate can come to
PageReads == {"ok", "detached", "other"}

\* what page.evaluate would give, call after call
PageOutcomes == {<<a, b>> : a \in PageReads, b \in PageReads}

\* BrowserAgent.getPageState on the outcomes of the calls of page.evaluate:
\* one call; its error is logged and thrown again
getPageState(outcomes) ==
  [kind |-> IF outcomes[1] = "ok" THEN "return" ELSE "throw",
   evaluations |-> 1]

\* getPageState throws: execute catches and returns failed
getPageStateThrows(t, outcomes) ==
  /\ pc[t] = "getPageState"
  /\ getPageState(outcomes).kind = "throw"
  /\ executeReturned(t, "failed")
  /\ saveTasks(TRUE)
  /\ observed' = [op |-> "getPageState", task |-> t,
                  sessionId |-> tasks[t].sessionId, usage |-> noUsage,
                  outcomes |-> outcomes,
                  evaluations |-> getPageState(outcomes).evaluations]
  /\ UNCHANGED sessionsFile
  /\ UNCHANGED liveBrowsers

\* getPageState returns and WatchdogAgent.execute runs its keyword scan: a
\* hit returns intervention without an LLM call, otherwise Tier 2 is called
keywordScan(t, hit) ==
  /\ pc[t] = "getPageState"
  /\ IF hit THEN executeReturned(t, "intervention")
     ELSE executorContinues(t, "watchdog")
  /\ saveTasks(FALSE)
  /\ observed' = NoObservation
  /\ UNCHANGED sessionsFile
  /\ UNCHANGED liveBrowsers

ExecutorPcs ==
  {"getPageState", "watchdog", "getDecision", "summarizePage", "performAction"}

\* what the Tier 2 call of the Watchdog can come to: a verdict, an empty
\* content, a content that does not parse, no answer
WatchdogResults == {"success", "intervention", "empty", "malformed", "transport"}

\* `if (!content) throw` comes before MessageLogger.log
watchdogReportsUsage(r) == r \in {"success", "intervention", "malformed"}

\* a Watchdog whose catch asks for intervention
watchdogFailsClosed(r) ==
  CASE r = "success" ->
         [status |-> "success", isStuck |-> FALSE, needsIntervention |-> FALSE]
    [] OTHER ->
         [status |-> "intervention", isStuck |-> FALSE,
          needsIntervention |-> TRUE]

\* what WatchdogAgent.execute returns after its Tier 2 call: the verdict of
\* the LLM, or status failed from its catch
watchdogResponse(r) ==
  CASE r = "success" ->
         [status |-> "success", isStuck |-> FALSE, needsIntervention |-> FALSE]
    [] r = "intervention" ->
         [status |-> "intervention", isStuck |-> FALSE,
          needsIntervention |-> TRUE]
    [] OTHER ->
         [status |-> "failed", isStuck |-> FALSE, needsIntervention |-> FALSE]

\* the return of the Watchdog as the specification records it
watchdogObserved(t, r, u, watch) ==
  IF "watchdog" \in watch
    THEN [op |-> "watchdog", task |-> t, sessionId |-> tasks[t].sessionId,
          usage |-> u, result |-> r, response |-> watchdogResponse(r)]
  ELSE llmObserved(t, r # "transport", u, watch)

\* the Tier 2 call of WatchdogAgent.execute returns
watchdogExecute(t, r, u, watch) ==
  /\ pc[t] = "watchdog"
  /\ r # "transport" => withinBudget(t, u)
  /\ IF watchdogResponse(r).status = "intervention"
       THEN executeReturned(t, "intervention")
     ELSE executorContinues(t, "getDecision")
  /\ onTokenUsage(t, watchdogReportsUsage(r), u, FALSE)
  /\ noStep(FALSE)
  /\ observed' = watchdogObserved(t, r, u, watch)
  /\ UNCHANGED liveBrowsers

\* getDecision returns; on answer or finish summarizePage is called,
\* otherwise the page action is performed and the settle sleep follows
getDecision(t, r, finish, u, watch) ==
  /\ pc[t] = "getDecision"
  /\ reportsUsage(r) => withinBudget(t, u)
  /\ IF r = "ok"
       THEN executorContinues(t, IF finish THEN "summarizePage"
                                 ELSE "performAction")
       ELSE executeReturned(t, "failed")
  /\ onTokenUsage(t, reportsUsage(r), u, TRUE)
  /\ onStep(t, "browser", executorStep[t], r = "ok", TRUE, watch)
  /\ observed' = llmObserved(t, r # "transport", u, watch)
  /\ UNCHANGED liveBrowsers

\* summarizePage returns (with its fallback when the call failed)
summarizePage(t, r, u, watch) ==
  /\ pc[t] = "summarizePage"
  /\ reportsUsage(r) => withinBudget(t, u)
  /\ executeReturned(t, "success")
  /\ onTokenUsage(t, reportsUsage(r), u,
                  executeOutcome(t, "success").kind = "return")
  /\ noStep(executeOutcome(t, "success").kind = "return")
  /\ observed' = llmObserved(t, r # "transport", u, watch)
  /\ UNCHANGED liveBrowsers

\* the 5 s timer of the wait command fires
waitTimer(t) ==
  /\ pc[t] = "wait"
  /\ \E ts \in Now :
       endTurn(t, whileLoop(t, currentStep[t]), t \in aborted, ts, tasks)
  /\ saveTasks(whileLoop(t, currentStep[t]).kind = "return")
  /\ observed' = NoObservation
  /\ UNCHANGED <<concurrency, uiTest, serviceVars, executorStep, liveBrowsers, aborted,
                 isVerifying, sessionsFile, memories, sessionHistory,
                 handshake>>

\* switchBrowserHeadless(browser, false) is over: waitForVerification
\* registers onResolved on the EventBus and onAbort on the signal
\* a cleanup that leaves onAbort on the signal
cleanupKeepsAbort(listeners) == listeners \ {"onResolved"}

\* waitForVerification, cleanup: eventBus.off('verification_resolved',
\* onResolved) and signal?.removeEventListener('abort', onAbort)
cleanup(listeners) == listeners \ {"onResolved", "onAbort"}

\* waitForVerification: eventBus.on('verification_resolved', onResolved)
\* and signal?.addEventListener('abort', onAbort, {once: true})
waitForVerification(listeners) == listeners \cup {"onResolved", "onAbort"}

switchBrowserHeadless(t) ==
  /\ pc[t] = "switchGui"
  /\ pc' = [pc EXCEPT ![t] = "waitForVerification"]
  /\ handshake' = [handshake EXCEPT
                     ![t].listeners = waitForVerification(@)]
  /\ observed' = NoObservation
  /\ UNCHANGED <<concurrency, uiTest, serviceVars, executorStep, liveBrowsers, tasks,
                 queue, active, runningAborts, aborted, currentStep, planer,
                 browser, headless, sessionHistoryContext, isVerifying,
                 sessionsFile, memories, sessionHistory, clock, tokenUsage,
                 tasksFile, steps, stepsFile, stats>>

\* the jobs whose onResolved listener is on the EventBus
resolvedListeners == {t \in TaskIds : pc[t] = "waitForVerification"}

\* onResolved: `if (data.sessionId !== this.sessionId) return`
onResolved(t, sessionId) == sessionId = planer.sessionId

\* the finally of handleIntervention: switchBrowserHeadless(browser,
\* defaultHeadless) is over; the loop continues, or the rejection of
\* waitForVerification reaches the catch of execute
restoreHeadless(t) ==
  /\ pc[t] \in {"restoreResolved", "restoreAborted"}
  /\ LET out == IF pc[t] = "restoreAborted" THEN Throw("User aborted")
                ELSE whileLoop(t, currentStep[t])
     IN  /\ \E ts \in Now : endTurn(t, out, t \in aborted, ts, tasks)
         /\ saveTasks(out.kind = "return")
  /\ observed' = NoObservation
  /\ handshake' = [handshake EXCEPT ![t] = NoHandshake]
  /\ UNCHANGED <<concurrency, uiTest, serviceVars, executorStep, liveBrowsers, aborted,
                 isVerifying, sessionsFile, memories, sessionHistory>>

\* UI_TEST: the mock timer fires, the mock usage is reported, completed
mockTimer(t, u) ==
  /\ pc[t] = "mockSleep"
  /\ \E ts \in Now :
       endTurn(t, Return("success", "none"), t \in aborted, ts, tasks)
  /\ onTokenUsage(t, TRUE, u, TRUE)
  /\ noStep(TRUE)
  /\ observed' = NoObservation
  /\ UNCHANGED <<concurrency, uiTest, serviceVars, executorStep, liveBrowsers, aborted,
                 isVerifying, memories, sessionHistory, handshake>>

\* ---------------------------------------------------------------------
\* QueueEngine.stopTask and the abort listeners it fires
\* ---------------------------------------------------------------------
stopTask(t, watch) ==
  /\ t \in DOMAIN tasks
  /\ observed' = IF "stopTask" \in watch
                   THEN [op |-> "stopTask", task |-> t, sessionId |-> "none",
                         usage |-> noUsage]
                 ELSE NoObservation
  /\ saveTasks(stopTaskGuard(t))
  /\ IF ~stopTaskGuard(t)
       THEN UNCHANGED <<tasks, queue, active, runningAborts, aborted, pc,
                        currentStep, planer, browser, headless,
                        sessionHistoryContext, clock, handshake>>
       ELSE \E ts \in Now :
         LET fires == t \in runningAborts /\ t \notin aborted
             stopped == [tasks EXCEPT ![t] =
                           [@ EXCEPT !.status = "cancelled",
                                     !.completedAt = ts,
                                     !.error = "stopped"]]
         IN  /\ aborted' = IF t \in runningAborts THEN aborted \cup {t}
                           ELSE aborted
             /\ IF fires /\ pc[t] \in {"wait", "mockSleep"}
                  \* the timer promise rejects; the job's catch block runs
                  THEN /\ \E ts2 \in {u \in ts..(ts + 1) : u <= MaxClock} :
                            endTurn(t, Throw("User aborted"), TRUE, ts2, stopped)
                       /\ UNCHANGED handshake
                  ELSE IF fires /\ pc[t] = "waitForVerification"
                    \* onAbort: cleanup, reject; the finally restores headless
                    THEN /\ pc' = [pc EXCEPT ![t] = "restoreAborted"]
                         /\ tasks' = stopped
                         /\ clock' = ts
                         /\ headless' = setHeadless(headless, browser[t],
                                                    normalizedHeadless)
                         /\ handshake' = [handshake EXCEPT
                                            ![t].listeners = cleanup(@)]
                         /\ UNCHANGED <<queue, active, runningAborts,
                                        currentStep, planer, browser,
                                        sessionHistoryContext>>
                    ELSE /\ tasks' = stopped
                         /\ clock' = ts
                         /\ UNCHANGED <<queue, active, runningAborts, pc,
                                        currentStep, planer, browser,
                                        headless, sessionHistoryContext,
                                        handshake>>
  /\ UNCHANGED <<concurrency, uiTest, serviceVars, executorStep, liveBrowsers,
                 isVerifying, sessionsFile, memories, sessionHistory>>

\* ---------------------------------------------------------------------
\* App.handleNormalMode, key 'c' on session s: verification_resolved
\* ---------------------------------------------------------------------
handleNormalMode(s, watch) ==
  /\ isVerifying[s]
  /\ isVerifying' = [isVerifying EXCEPT ![s] = FALSE]
  /\ observed' = IF "verification_resolved" \in watch
                   THEN [op |-> "verification_resolved", task |-> 0,
                         sessionId |-> s, usage |-> noUsage]
                 ELSE NoObservation
  /\ pc' = [t \in TaskIds |->
              IF t \in resolvedListeners /\ onResolved(t, s)
                THEN "restoreResolved" ELSE pc[t]]
  /\ headless' =
       [a \in TaskIds |->
          IF \E t \in resolvedListeners : onResolved(t, s) /\ browser[t].id = a
            THEN setHeadless(headless, [id |-> a], normalizedHeadless)[a]
          ELSE headless[a]]
  /\ handshake' =
       [t \in TaskIds |->
          [sessionId |-> handshake[t].sessionId,
           resolved |-> \/ handshake[t].resolved
                        \/ /\ pc[t] \in {"switchGui", "waitForVerification"}
                           /\ handshake[t].sessionId = s,
           listeners |-> IF t \in resolvedListeners /\ onResolved(t, s)
                           THEN cleanup(handshake[t].listeners)
                         ELSE handshake[t].listeners]]
  /\ UNCHANGED <<concurrency, uiTest, serviceVars, executorStep, liveBrowsers, tasks,
                 queue, active, runningAborts, aborted, currentStep, planer,
                 browser, sessionHistoryContext, sessionsFile, memories,
                 sessionHistory, clock, tokenUsage, tasksFile, steps,
                 stepsFile, stats>>

\* ---------------------------------------------------------------------
\* The process ends and is started again: the constructors run, tasks.json
\* and sessions.json are loaded, no job and no listener survives
\* ---------------------------------------------------------------------
restart ==
  /\ Len(tasks) > 0
  /\ tasks' = [i \in DOMAIN tasks |-> loadTasks(tasks[i])]
  /\ queue' = <<>>
  /\ active' = {}
  /\ runningAborts' = {}
  /\ aborted' = {}
  /\ pc' = [t \in TaskIds |-> IF pc[t] = "done" THEN "done" ELSE "none"]
  /\ currentStep' = [t \in TaskIds |-> 0]
  /\ planer' = newPlaner
  /\ browser' = [t \in TaskIds |-> noBrowserAgent]
  /\ sessionHistoryContext' = [t \in TaskIds |-> <<>>]
  /\ liveBrowsers' = {}
  /\ headless' = [a \in TaskIds |-> TRUE]
  /\ isVerifying' = sessionsFile
  /\ handshake' = [t \in TaskIds |-> NoHandshake]
  /\ observed' = NoObservation
  /\ executorStep' = [t \in TaskIds |-> 0]
  /\ tokenUsage' = tasksFile
  /\ steps' = stepsFile
  /\ UNCHANGED <<concurrency, uiTest, serviceVars, sessionsFile, memories, sessionHistory,
                 clock, tasksFile, stepsFile, stats>>

\* the steps of the program but those of a running Executor; watch names
\* what is recorded in `observed` (the calls of stopTask, the emissions of
\* verification_resolved, the answers of LLM calls); U is the set of usages
\* a response can carry
Scheduler(watch, U) ==
  \/ \E s \in Sessions, save \in BOOLEAN : addTask(s, save)
  \/ \E t \in TaskIds : stopTask(t, watch)
  \/ \E t \in TaskIds, r \in LLMResults, u \in U : extractKeywords(t, r, u, watch)
  \/ \E t \in TaskIds, r \in LLMResults, c \in PlanCommands, u \in U :
       planNextStep(t, r, c, u, watch)
  \/ \E t \in TaskIds : waitTimer(t)
  \/ \E t \in TaskIds : switchBrowserHeadless(t)
  \/ \E t \in TaskIds : restoreHeadless(t)
  \/ \E t \in TaskIds, u \in U : mockTimer(t, u)
  \/ \E s \in Sessions : handleNormalMode(s, watch)
  \/ restart

\* the program with an Executor invocation taken as a whole
Step(watch, U) ==
  \/ Scheduler(watch, U)
  \/ \E t \in TaskIds, u \in U : browserTokenUsage(t, u)
  \/ \E t \in TaskIds, r \in ExecutorResults : browserExecute(t, r)

\* the steps of a running Executor, await by await
Executor(watch, U) ==
  \/ \E t \in TaskIds : runAutomation(t)
  \/ \E t \in TaskIds : executorThrows(t)
  \/ \E t \in TaskIds, hit \in BOOLEAN : keywordScan(t, hit)
  \/ \E t \in TaskIds, r \in WatchdogResults, u \in U :
       watchdogExecute(t, r, u, watch)
  \/ \E t \in TaskIds, r \in LLMResults, finish \in BOOLEAN, u \in U :
       getDecision(t, r, finish, u, watch)
  \/ \E t \in TaskIds, r \in LLMResults, u \in U : summarizePage(t, r, u, watch)

\* ---------------------------------------------------------------------
\* MemoryService: the table memories
\* ---------------------------------------------------------------------
min(a, b) == IF a < b THEN a ELSE b

\* ORDER BY <key> DESC: the rows by falling key (keys[i] is the key of
\* rows[i]), the rows of equal key in the order of this build
orderByDesc(rows, keys) ==
  LET before(j, i) ==
        \/ keys[j] > keys[i]
        \/ /\ keys[j] = keys[i]
           /\ IF tieBreak = "rowid" THEN j < i ELSE j > i
      rank(i) == Cardinality({j \in DOMAIN rows : before(j, i)})
  IN  [k \in DOMAIN rows |->
         rows[CHOOSE i \in DOMAIN rows : rank(i) = k - 1]]

\* keywords LIKE '%k%': LIKE does not tell the case of ASCII letters
like(column, k) == includes(toLowerCase(column), toLowerCase(k))

\* the query without the filter on status
whereAnyStatus(row) == TRUE

\* WHERE status = 'success'
whereStatus(row) == row.status = "success"

\* the query without LIMIT
limitNone(rows) == rows

\* LIMIT 5
limit(rows) == SubSeq(rows, 1, min(searchLimit, Len(rows)))

\* the column keywords of a saved record
keywordsColumn(keywords) == join(keywords, <<",">>)

\* the column of a save that lowercases the keywords first
keywordsColumnLowered(keywords) ==
  join([i \in DOMAIN keywords |-> toLowerCase(keywords[i])], <<",">>)

\* MemoryService.search: what it returns
search(keywords) ==
  IF keywords = <<>> THEN <<>>
  ELSE LET matching ==
             SelectSeq(memoriesTable,
                       LAMBDA row :
                         /\ whereStatus(row)
                         /\ \E i \in DOMAIN keywords :
                              like(row.keywords, keywords[i]))
           results == limit(orderByDesc(matching,
                                        [i \in DOMAIN matching |->
                                           matching[i].timestamp]))
       IN  [k \in DOMAIN results |->
              [id |-> results[k].id,
               keywords |-> split(results[k].keywords, ","),
               status |-> results[k].status,
               timestamp |-> results[k].timestamp]]

\* the keyword lists the Planner gets from its LLM
KeywordLists == {<< <<"A", "b">> >>, << <<"b">>, <<"c">> >>}

\* the keyword lists searched for
Queries == {<<>>, << <<"a">> >>, << <<"a">>, <<"c">> >>}

MemoryRecords ==
  [id : MemoryIds, keywords : KeywordLists, status : {"success", "failed"}]

\* a call of MemoryService.save: INSERT OR REPLACE deletes the row of this id and
\* appends the new one, its timestamp CURRENT_TIMESTAMP
saveCall(record, ts) ==
  /\ \/ record.id = Len(memoriesTable) + 1
     \/ /\ \E i \in DOMAIN memoriesTable : memoriesTable[i].id = record.id
        /\ Len(memoriesTable) <= MaxReplaceRows
  /\ memoriesTable' =
       Append(SelectSeq(memoriesTable, LAMBDA row : row.id # record.id),
              [id |-> record.id,
               keywords |-> keywordsColumn(record.keywords),
               status |-> record.status,
               timestamp |-> ts])
  /\ savedKeywords' = [savedKeywords EXCEPT ![record.id] = record.keywords]
  /\ clock' = ts
  /\ lastCall' = [op |-> "save", args |-> record.id, result |-> <<>>]
  /\ UNCHANGED <<schedulerVars, tieBreak, botKeywordsTable, watchdogs, cost>>

\* a call of MemoryService.search
searchCall(keywords) ==
  /\ lastCall' = [op |-> "search", args |-> keywords,
                  result |-> search(keywords)]
  /\ UNCHANGED <<schedulerVars, clock, memoriesTable, savedKeywords, tieBreak,
                 botKeywordsTable, watchdogs, cost>>

\* ---------------------------------------------------------------------
\* MemoryService: the table bot_keywords, and the Watchdogs that read it
\* ---------------------------------------------------------------------
\* [\s,.;:?!\/\\\-()\[\]{}]
separators ==
  whiteSpace \cup {",", ".", ";", ":", "?", "!", "/", "\\", "-", "(", ")",
                   "[", "]", "{", "}"}

\* the characters of [A-Za-z0-9\u4e00-\u9fff] that the model uses
tokenChars ==
  {"a", "b", "c", "e", "h", "k", "o", "r", "t", "v", "y", "B", "C", "R", "4",
   "U+5075", "U+6E2C", "U+9A57", "U+8B49"}

RECURSIVE skipSeparators(_)
skipSeparators(str) ==
  IF str # <<>> /\ Head(str) \in separators THEN skipSeparators(Tail(str))
  ELSE str

\* String.prototype.split on /[...]+/: a run of separators ends a piece
RECURSIVE splitRuns(_, _)
splitRuns(str, piece) ==
  IF str = <<>> THEN <<piece>>
  ELSE IF Head(str) \in separators
    THEN <<piece>> \o splitRuns(skipSeparators(str), <<>>)
  ELSE splitRuns(Tail(str), Append(piece, Head(str)))

\* token.replace(/[^A-Za-z0-9\u4e00-\u9fff]/g, '')
strip(token) == SelectSeq(token, LAMBDA ch : ch \in tokenChars)

\* Array.from(new Set(tokens)): the first of equal tokens stays
RECURSIVE unique(_)
unique(list) ==
  IF list = <<>> THEN <<>>
  ELSE LET last == list[Len(list)]
           init == SubSeq(list, 1, Len(list) - 1)
       IN  IF last \in Range(init) THEN unique(init)
           ELSE Append(unique(init), last)

\* the tokens addBotKeywordsFromText takes from a text
uniqueTokens(text) ==
  LET cleaned == trim([i \in DOMAIN text |->
                         IF text[i] = "\n" THEN " " ELSE text[i]])
      pieces == splitRuns(cleaned, <<>>)
      tokens == SelectSeq([i \in DOMAIN pieces |-> trim(strip(pieces[i]))],
                          LAMBDA token : Len(token) >= 4)
  IN  unique(SubSeq(tokens, 1, min(12, Len(tokens))))

\* MemoryService.addBotKeyword on a table
addBotKeyword(table, keyword, ts) ==
  LET normalized == normalizeKeyword(keyword)
  IN  IF normalized = <<>> THEN table
      ELSE insertOrIgnore(table, normalized, ts)

RECURSIVE addBotKeywords(_, _, _)
addBotKeywords(table, keywords, ts) ==
  IF keywords = <<>> THEN table
  ELSE addBotKeywords(addBotKeyword(table, Head(keywords), ts),
                      Tail(keywords), ts)

\* MemoryService.addBotKeywordsFromText on a table
addBotKeywordsFromText(table, text, ts) ==
  IF text = <<>> THEN table
  ELSE addBotKeywords(table, uniqueTokens(text), ts)

\* MemoryService.deleteBotKeyword on a table
deleteBotKeyword(table, keyword) ==
  LET normalized == normalizeKeyword(keyword)
  IN  IF normalized = <<>> THEN table
      ELSE SelectSeq(table, LAMBDA row : row.keyword # normalized)

\* a getBotKeywords that hands out the rows it finds, were there none
getBotKeywordsNoSeed(table, ts) ==
  LET rows == orderByDesc(table,
                         [i \in DOMAIN table |-> table[i].created_at])
  IN  [table |-> table, keywords |-> [k \in DOMAIN rows |-> rows[k].keyword]]

\* MemoryService.getBotKeywords: the table it leaves and the list it
\* returns
getBotKeywords(table, ts) ==
  LET rows == orderByDesc(table,
                         [i \in DOMAIN table |-> table[i].created_at])
  IN  IF rows = <<>>
      THEN [table |-> seedDefaultBotKeywords(table, ts),
            keywords |-> [i \in DOMAIN DEFAULT_BOT_KEYWORDS |->
                            normalizeKeyword(DEFAULT_BOT_KEYWORDS[i])]]
      ELSE [table |-> table,
            keywords |-> [k \in DOMAIN rows |-> rows[k].keyword]]

\* what the keyword manager of the UI and the Watchdog's LLM hand to
\* addBotKeyword
KeywordInputs ==
  {<<" ", "B", "o", "t", " ">>, <<" ">>, <<"c", "a", "p", "t", "c", "h", "a">>}

\* a call of addBotKeyword by the keyword manager
addBotKeywordCall(keyword, ts) ==
  /\ botKeywordsTable' = addBotKeyword(botKeywordsTable, keyword, ts)
  /\ clock' = ts
  /\ lastCall' = [op |-> "addBotKeyword", args |-> <<>>, result |-> <<>>]
  /\ UNCHANGED <<schedulerVars, memoriesTable, savedKeywords, tieBreak,
                 watchdogs, cost>>

\* a call of deleteBotKeyword by the keyword manager
deleteBotKeywordCall(keyword) ==
  /\ botKeywordsTable' = deleteBotKeyword(botKeywordsTable, keyword)
  /\ lastCall' = [op |-> "deleteBotKeyword", args |-> <<>>, result |-> <<>>]
  /\ UNCHANGED <<schedulerVars, clock, memoriesTable, savedKeywords, tieBreak,
                 watchdogs, cost>>

\* a call of getAllBotKeywords by the keyword manager; args is the number
\* of rows it found
getBotKeywordsCall(ts) ==
  LET got == getBotKeywords(botKeywordsTable, ts)
  IN  /\ botKeywordsTable' = got.table
      /\ clock' = ts
      /\ lastCall' = [op |-> "getBotKeywords",
                      args |-> Len(botKeywordsTable),
                      result |-> got.keywords]
      /\ UNCHANGED <<schedulerVars, memoriesTable, savedKeywords, tieBreak,
                     watchdogs, cost>>

\* what the Watchdog's LLM answers with needsIntervention and the page it
\* answered about: newBlockKeywords, reason, and the title of the page
LearnInputs ==
  {[newBlockKeywords |-> << <<" ", "B", "o", "t", " ">> >>,
    reason |-> <<"R", "o", "b", "o", "t", "?">>,
    title |-> <<"B", "o", "t", "-", "C", "h", "e", "c", "k", ":", " ",
                "R", "o", "b", "o", "t">>],
   [newBlockKeywords |-> << <<" ">> >>,
    reason |-> <<>>,
    title |-> <<"U+5075", "U+6E2C", "U+9A57", "U+8B49", "\n", "R", "o", "'",
                "b", "o", "t">>]}

\* the table after the keywords of an answer are added and
\* learnKeywordsFromState has added the tokens of the reason and of the
\* title
learntTable(input, ts) ==
  LET added == addBotKeywords(botKeywordsTable, input.newBlockKeywords, ts)
      sources == SelectSeq(<<input.reason, input.title>>,
                           LAMBDA text : text # <<>>)
      learnt == IF Len(sources) = 2
                  THEN addBotKeywordsFromText(
                         addBotKeywordsFromText(added, sources[1], ts),
                         sources[2], ts)
                ELSE IF Len(sources) = 1
                  THEN addBotKeywordsFromText(added, sources[1], ts)
                ELSE added
  IN  learnt

\* WatchdogAgent.execute after an answer with needsIntervention and
\* newBlockKeywords: the keywords are added, then learnKeywordsFromState
\* adds the tokens of the reason and of the title and drops the list this
\* Watchdog had loaded
learnKeywordsFromState(s, input, ts) ==
  /\ botKeywordsTable' = learntTable(input, ts)
  /\ watchdogs' = [watchdogs EXCEPT ![s].keywordsLoaded = FALSE]
  /\ clock' = ts
  /\ lastCall' = [op |-> "addBotKeywordsFromText", args |-> <<>>,
                  result |-> <<>>]
  /\ UNCHANGED <<schedulerVars, memoriesTable, savedKeywords, tieBreak,
                 cost>>

\* what the Watchdog's LLM answers about a page: needsIntervention and
\* newBlockKeywords (absent is empty), reason, and the title of the page
Verdicts ==
  {[needsIntervention |-> TRUE,
    newBlockKeywords |-> << <<" ", "B", "o", "t", " ">> >>,
    reason |-> <<"R", "o", "b", "o", "t", "?">>,
    title |-> <<"B", "o", "t", "-", "C", "h", "e", "c", "k">>],
   [needsIntervention |-> TRUE,
    newBlockKeywords |-> <<>>,
    reason |-> <<"R", "o", "b", "o", "t", "?">>,
    title |-> <<"B", "o", "t", "-", "C", "h", "e", "c", "k">>],
   [needsIntervention |-> FALSE,
    newBlockKeywords |-> << <<" ", "B", "o", "t", " ">> >>,
    reason |-> <<>>,
    title |-> <<"o", "k">>]}

\* WatchdogAgent.execute after JSON.parse of the answer of its Tier 2 call:
\* `if (data.needsIntervention && data.newBlockKeywords?.length)` the
\* keywords are added and learnKeywordsFromState is called
selfLearning(s, data, ts) ==
  /\ IF data.needsIntervention /\ Len(data.newBlockKeywords) > 0
       THEN /\ botKeywordsTable' = learntTable(data, ts)
            /\ watchdogs' = [watchdogs EXCEPT ![s].keywordsLoaded = FALSE]
            /\ clock' = ts
       ELSE /\ clock' = clock
            /\ UNCHANGED <<botKeywordsTable, watchdogs>>
  /\ UNCHANGED <<schedulerVars, memoriesTable, savedKeywords, tieBreak,
                 cost>>
  /\ lastCall' = [op |-> "selfLearning", args |-> <<s, data>>,
                  result |-> <<>>]

\* the pages a Watchdog scans: title, and whether the url is the one of
\* Google's sorry page
Snapshots ==
  {[title |-> <<"R", "O", "B", "O", "T">>, sorry |-> FALSE],
   [title |-> <<"o", "k">>, sorry |-> FALSE],
   [title |-> <<"o", "k">>, sorry |-> TRUE]}

\* the first keyword of the list that the title holds
firstHit(botKeywords, title) ==
  LET hits == SelectSeq(botKeywords,
                        LAMBDA keyword :
                          includes(toLowerCase(title), toLowerCase(keyword)))
  IN  IF hits = <<>> THEN <<>> ELSE <<Head(hits)>>

\* WatchdogAgent.ensureKeywordsLoaded: the table and the Watchdog after it
ensureKeywordsLoaded(s, ts) ==
  IF watchdogs[s].keywordsLoaded
    THEN [table |-> botKeywordsTable, watchdog |-> watchdogs[s]]
  ELSE LET got == getBotKeywords(botKeywordsTable, ts)
       IN  [table |-> got.table,
            watchdog |-> [keywordsLoaded |-> TRUE,
                          botKeywords |-> got.keywords]]

\* WatchdogAgent.keywordScan of the Watchdog of session s on a snapshot:
\* the reason it returns names the keyword it found (hit), or the sorry
\* page, or it returns null
keywordScanCall(s, state, ts) ==
  LET loaded == ensureKeywordsLoaded(s, ts)
      hit == firstHit(loaded.watchdog.botKeywords, state.title)
  IN  /\ botKeywordsTable' = loaded.table
      /\ watchdogs' = [watchdogs EXCEPT ![s] = loaded.watchdog]
      /\ clock' = ts
      /\ lastCall' =
           [op |-> "keywordScan", args |-> <<s, state.title>>,
            result |-> IF hit # <<>> THEN [reason |-> "keyword", hit |-> hit]
                       ELSE IF state.sorry
                         THEN [reason |-> "sorry", hit |-> <<>>]
                       ELSE [reason |-> "null", hit |-> <<>>]]
      /\ UNCHANGED <<schedulerVars, memoriesTable, savedKeywords, tieBreak,
                     cost>>

\* ---------------------------------------------------------------------
\* Cost accounting: prices are in thousandths of a dollar per million
\* tokens, costs in thousand-millionths of a dollar, so that both are
\* integers
\* ---------------------------------------------------------------------
defaultPricing == [input |-> 2500, cachedInput |-> 1250, output |-> 10000]

MODEL_PRICING ==
  [m \in {"gpt-4o", "gpt-4o-mini", "gpt-4o-2024-11-20",
          "gpt-4o-mini-2024-07-18"} |->
     IF m \in {"gpt-4o", "gpt-4o-2024-11-20"}
       THEN [input |-> 2500, cachedInput |-> 1250, output |-> 10000]
     ELSE [input |-> 150, cachedInput |-> 75, output |-> 600]]

\* a cost that charges the whole prompt and pays the cached part back
estimateCostRefund(usage) ==
  LET pricing == IF usage.model \in DOMAIN MODEL_PRICING
                   THEN MODEL_PRICING[usage.model]
                 ELSE defaultPricing
  IN  (usage.promptTokens - usage.cachedTokens) * pricing.input
        - usage.cachedTokens * pricing.cachedInput
        + usage.completionTokens * pricing.output

\* estimateCost
estimateCost(usage) ==
  LET pricing == IF usage.model \in DOMAIN MODEL_PRICING
                   THEN MODEL_PRICING[usage.model]
                 ELSE defaultPricing
      nonCachedInput == usage.promptTokens - usage.cachedTokens
  IN  nonCachedInput * pricing.input
        + usage.cachedTokens * pricing.cachedInput
        + usage.completionTokens * pricing.output

\* the usages of one LLM answer: the cached tokens are part of the prompt
\* tokens, the model is one of the price list or not
PricedUsages ==
  {u \in [promptTokens : 0..MaxSessionTokens,
          cachedTokens : 0..MaxSessionTokens,
          completionTokens : 0..MaxSessionTokens,
          model : {"gpt-4o", "gpt-4o-mini", "o3"}] :
     /\ u.cachedTokens <= u.promptTokens
     /\ u.promptTokens + u.completionTokens \in 1..MaxSessionTokens}

\* AppState.submitTask.onTokenUsage of a job of session s
sessionTokenUsage(s, usage) ==
  /\ stats[s].tokens + usage.promptTokens + usage.completionTokens
       <= MaxSessionTokens
  /\ IF cost[s].listed
       THEN /\ stats' = [stats EXCEPT ![s] = addStats(@, usage)]
            /\ cost' = [cost EXCEPT ![s].cost = @ + estimateCost(usage)]
            /\ saveSessions
       ELSE UNCHANGED <<stats, cost, sessionsFile>>
  /\ lastCall' = [op |-> "onTokenUsage", args |-> s,
                  result |-> estimateCost(usage)]
  /\ UNCHANGED <<concurrency, uiTest, tasks, queue, active, runningAborts,
                 aborted, pc, currentStep, planer, isVerifying, memories,
                 sessionHistory, clock, executorStep, tokenUsage, tasksFile,
                 steps, stepsFile, observed, handshake, browser, liveBrowsers,
                 headless, sessionHistoryContext, memoriesTable, savedKeywords,
                 tieBreak, botKeywordsTable, watchdogs>>

\* AppState.deleteCurrentSession of session s: the jobs of the session go
\* on and keep calling onTokenUsage
deleteCurrentSession(s) ==
  /\ cost[s].listed
  /\ \E other \in Sessions \ {s} : cost[other].listed
  /\ cost' = [cost EXCEPT ![s].listed = FALSE]
  /\ saveSessions
  /\ lastCall' = [op |-> "deleteCurrentSession", args |-> s, result |-> 0]
  /\ UNCHANGED <<concurrency, uiTest, tasks, queue, active, runningAborts,
                 aborted, pc, currentStep, planer, isVerifying, memories,
                 sessionHistory, clock, executorStep, tokenUsage, tasksFile,
                 steps, stepsFile, stats, observed, handshake, browser, liveBrowsers,
                 headless, sessionHistoryContext, memoriesTable, savedKeywords,
                 tieBreak, botKeywordsTable, watchdogs>>

Next == Step({}, {noUsage})

\* the steps of the scheduler never read the tables, so one order of the
\* rows of equal key stands for both
Init == Boot(MaxClock) /\ tieBreak = "rowid"

Spec == Init /\ [][Next]_vars

\* the same program started when the clock can still advance
InitClock == Boot(1) /\ tieBreak = "rowid"

SpecClock == InitClock /\ [][Next]_vars

\* the same program with its calls and emissions observed
NextObserved == Step({"stopTask", "verification_resolved"}, {noUsage})

SpecObserved == Init /\ [][NextObserved]_vars

\* the same program with the Executor followed iteration by iteration
NextExecutor == Scheduler({}, {noUsage}) \/ Executor({}, {noUsage})

SpecExecutor == Init /\ [][NextExecutor]_vars

\* the same program with one task, its Executor followed up to the limit
\* of its loop
NextIterations ==
  \/ \E s \in Sessions, save \in BOOLEAN : addTaskWithin(1, s, save)
  \/ \E t \in TaskIds : stopTask(t, {})
  \/ \E t \in TaskIds, r \in LLMResults : extractKeywords(t, r, noUsage, {})
  \/ \E t \in TaskIds, r \in LLMResults, c \in PlanCommands :
       planNextStep(t, r, c, noUsage, {})
  \/ \E t \in TaskIds : runAutomationWithin(MaxIterations, t)
  \/ \E t \in TaskIds : executorThrows(t)
  \/ \E t \in TaskIds, hit \in BOOLEAN : keywordScan(t, hit)
  \/ \E t \in TaskIds, r \in WatchdogResults :
       watchdogExecute(t, r, noUsage, {})
  \/ \E t \in TaskIds, r \in LLMResults, finish \in BOOLEAN :
       getDecision(t, r, finish, noUsage, {})
  \/ \E t \in TaskIds, r \in LLMResults : summarizePage(t, r, noUsage, {})
  \/ \E t \in TaskIds : waitTimer(t)
  \/ \E t \in TaskIds : switchBrowserHeadless(t)
  \/ \E t \in TaskIds : restoreHeadless(t)
  \/ \E t \in TaskIds : mockTimer(t, noUsage)
  \/ \E s \in Sessions : handleNormalMode(s, {})
  \/ restart

SpecIterations == Init /\ [][NextIterations]_vars

\* the same program while nobody stops a task and the process keeps
\* running, with one more task submitted
NextAgents ==
  \/ \E s \in Sessions, save \in BOOLEAN : addTaskWithin(MaxAgentTasks, s, save)
  \/ \E t \in TaskIds, r \in LLMResults : extractKeywords(t, r, noUsage, {})
  \/ \E t \in TaskIds, r \in LLMResults, c \in PlanCommands :
       planNextStep(t, r, c, noUsage, {})
  \/ \E t \in TaskIds, r \in ExecutorResults : browserExecute(t, r)
  \/ \E t \in TaskIds : waitTimer(t)
  \/ \E t \in TaskIds : switchBrowserHeadless(t)
  \/ \E t \in TaskIds : restoreHeadless(t)
  \/ \E t \in TaskIds : mockTimer(t, noUsage)
  \/ \E s \in Sessions : handleNormalMode(s, {})

SpecAgents == Init /\ [][NextAgents]_vars

\* the same program with one task, followed up to the step limit
NextSteps ==
  \/ \E s \in Sessions, save \in BOOLEAN : addTaskWithin(1, s, save)
  \/ \E t \in TaskIds : stopTask(t, {})
  \/ \E t \in TaskIds, r \in LLMResults : extractKeywords(t, r, noUsage, {})
  \/ \E t \in TaskIds, r \in LLMResults, c \in PlanCommands :
       planNextStepWithin(MaxCountedSteps, t, r, c, noUsage, {})
  \/ \E t \in TaskIds, r \in ExecutorResults : browserExecute(t, r)
  \/ \E t \in TaskIds : waitTimer(t)
  \/ \E t \in TaskIds : switchBrowserHeadless(t)
  \/ \E t \in TaskIds : restoreHeadless(t)
  \/ \E t \in TaskIds : mockTimer(t, noUsage)
  \/ \E s \in Sessions : handleNormalMode(s, {})
  \/ restart

SpecSteps == Init /\ [][NextSteps]_vars

\* a step of the job of task t: an LLM call, an Executor call, a page
\* switch or a timer returns
jobStep(t) ==
  \/ \E r \in LLMResults : extractKeywords(t, r, noUsage, {})
  \/ \E r \in LLMResults, c \in PlanCommands :
       planNextStepWithin(MaxCountedSteps, t, r, c, noUsage, {})
  \/ \E r \in ExecutorResults : browserExecute(t, r)
  \/ waitTimer(t)
  \/ switchBrowserHeadless(t)
  \/ restoreHeadless(t)
  \/ mockTimer(t, noUsage)

\* every call of a job returns, and the user answers every
\* verification_needed with the key that emits verification_resolved
Fairness ==
  /\ \A t \in TaskIds : WF_vars(jobStep(t))
  /\ \A s \in Sessions : WF_vars(handleNormalMode(s, {}))

\* the program with one task, every call returning and every
\* verification answered
SpecLive == Init /\ [][NextSteps]_vars /\ Fairness

\* the same program with one task, its step records and the tokens of its
\* LLM answers followed, up to MaxStepRecords records
withinRecords(t) == Len(steps[t]) < MaxStepRecords

\* what this specification records: the step records, the LLM answers and
\* the returns of the Watchdog
Recorded == {"llm", "steps", "watchdog"}

planNextStepRecorded(t, r, command, u) ==
  /\ withinRecords(t)
  /\ planNextStep(t, r, command, u, Recorded)

getDecisionRecorded(t, r, finish, u) ==
  /\ withinRecords(t)
  /\ getDecision(t, r, finish, u, Recorded)

NextRecords ==
  \/ \E s \in Sessions, save \in BOOLEAN : addTaskWithin(1, s, save)
  \/ \E t \in TaskIds : stopTask(t, {})
  \/ \E t \in TaskIds, r \in LLMResults, u \in Usages :
       extractKeywords(t, r, u, Recorded)
  \/ \E t \in TaskIds, r \in LLMResults, c \in PlanCommands, u \in Usages :
       planNextStepRecorded(t, r, c, u)
  \/ \E t \in TaskIds : runAutomation(t)
  \/ \E t \in TaskIds : executorThrows(t)
  \/ \E t \in TaskIds, outcomes \in PageOutcomes :
       getPageStateThrows(t, outcomes)
  \/ \E t \in TaskIds, hit \in BOOLEAN : keywordScan(t, hit)
  \/ \E t \in TaskIds, r \in WatchdogResults, u \in Usages :
       watchdogExecute(t, r, u, Recorded)
  \/ \E t \in TaskIds, r \in LLMResults, finish \in BOOLEAN, u \in Usages :
       getDecisionRecorded(t, r, finish, u)
  \/ \E t \in TaskIds, r \in LLMResults, u \in Usages :
       summarizePage(t, r, u, Recorded)
  \/ \E t \in TaskIds : waitTimer(t)
  \/ \E t \in TaskIds : switchBrowserHeadless(t)
  \/ \E t \in TaskIds : restoreHeadless(t)
  \/ \E t \in TaskIds, u \in Usages : mockTimer(t, u)
  \/ \E s \in Sessions : handleNormalMode(s, {})
  \/ restart

SpecRecords == Init /\ [][NextRecords]_vars

\* the same program with the tokens of every LLM answer followed
NextTokens == Scheduler({"llm"}, Usages) \/ Executor({"llm"}, Usages)

SpecTokens == Init /\ [][NextTokens]_vars

\* the MemoryService called by one process: saves and searches, on
\* either build of SQLite
InitMemory ==
  /\ Boot(1)
  /\ concurrency = 2
  /\ ~uiTest
  /\ tieBreak \in TieBreaks

NextMemory ==
  \/ \E record \in MemoryRecords, ts \in Now : saveCall(record, ts)
  \/ \E keywords \in Queries : searchCall(keywords)

SpecMemory == InitMemory /\ [][NextMemory]_vars

\* the costs of the sessions as the answers of the LLM come in
NextCost ==
  \/ \E s \in Sessions, usage \in PricedUsages : sessionTokenUsage(s, usage)
  \/ \E s \in Sessions : deleteCurrentSession(s)

InitCost == Init /\ concurrency = 2 /\ ~uiTest

SpecCost == InitCost /\ [][NextCost]_vars

\* the MemoryService constructed when the clock is at its last value:
\* every bot keyword has the same created_at, and the build orders them
InitBotKeywords ==
  /\ Boot(MaxClock)
  /\ concurrency = 2
  /\ ~uiTest
  /\ tieBreak \in TieBreaks

\* the bot keywords as the keyword manager and the learning Watchdogs
\* change them
NextBotKeywords ==
  \/ \E keyword \in KeywordInputs, ts \in Now : addBotKeywordCall(keyword, ts)
  \/ \E keyword \in KeywordInputs \cup
                     {botKeywordsTable[i].keyword : i \in DOMAIN botKeywordsTable} :
       deleteBotKeywordCall(keyword)
  \/ \E s \in Sessions, input \in LearnInputs, ts \in Now :
       learnKeywordsFromState(s, input, ts)
  \/ \E ts \in Now : getBotKeywordsCall(ts)

SpecBotKeywords == InitBotKeywords /\ [][NextBotKeywords]_vars

\* the Watchdogs of two sessions scanning and learning, and the keyword
\* manager adding
NextWatchdogs ==
  \/ \E keyword \in KeywordInputs, ts \in Now : addBotKeywordCall(keyword, ts)
  \/ \E s \in Sessions, input \in LearnInputs, ts \in Now :
       learnKeywordsFromState(s, input, ts)
  \/ \E s \in Sessions, state \in Snapshots, ts \in Now :
       keywordScanCall(s, state, ts)

SpecWatchdogs == InitBotKeywords /\ [][NextWatchdogs]_vars

\* the Watchdogs of two sessions scanning, and learning from the answers
\* of their Tier 2 calls
NextLearning ==
  \/ \E s \in Sessions, data \in Verdicts, ts \in Now :
       selfLearning(s, data, ts)
  \/ \E s \in Sessions, state \in Snapshots, ts \in Now :
       keywordScanCall(s, state, ts)

SpecLearning == InitBotKeywords /\ [][NextLearning]_vars

\* ---------------------------------------------------------------------
runningTasks == {t \in DOMAIN tasks : tasks[t].status = "running"}

\* stopTask leaves error = "stopped" on the task it stops while running
stoppedWhileRunning(t) == tasks[t].error = "stopped"

\* C1: with a scheduler built with concurrency N, the number of tasks whose
\* status is running never exceeds N
C1_RunningAtMostConcurrency == Cardinality(runningTasks) <= concurrency

\* the bound is reached and a further job is held back in the queue
C1_Witness ==
  /\ Cardinality(runningTasks) = concurrency
  /\ queue # <<>>
  /\ tasks[Head(queue)].status = "pending"

inHistory(t) ==
  \E s \in Sessions : \E i \in DOMAIN sessionHistory[s] : sessionHistory[s][i] = t

\* C3: once the job of a task stopped while running has ended, the task has
\* status cancelled and a completedAt, no MemoryRecord was saved for it and
\* no session-history entry was appended for it
C3_StoppedLeavesNoRecord ==
  \A t \in DOMAIN tasks :
    stoppedWhileRunning(t) /\ pc[t] = "done" =>
      /\ tasks[t].status = "cancelled"
      /\ tasks[t].completedAt # 0
      /\ t \notin memories
      /\ ~inHistory(t)

\* C4: stopTask called on a task that is still queued marks it cancelled
\* (so that its job returns at the gate without ever setting running)
C4_StopQueuedMarksCancelled ==
  \A t \in DOMAIN tasks :
    observed.op = "stopTask" /\ observed.task = t => tasks[t].status # "pending"

\* C5: a verification_resolved emitted for the session named by a job's
\* verification_needed, at any time after that emission, is not lost: the
\* job is not left waiting for it (unless it was stopped)
C5_ResolutionNotLost ==
  \A t \in TaskIds :
    pc[t] = "waitForVerification" /\ handshake[t].resolved => t \in aborted

\* C6: a planner that emitted verification_needed for session S and waits
\* resumes when verification_resolved { sessionId: S } is emitted, and leaves
\* the wait only on that emission or on the stop of its own task, whatever
\* other task started in between
C6_ResumesOnOwnSession ==
  [][\A t \in DOMAIN tasks :
       pc[t] = "waitForVerification" =>
         /\ (observed'.op = "verification_resolved"
             /\ observed'.sessionId = handshake[t].sessionId)
              => pc'[t] = "restoreResolved"
         /\ pc'[t] = "restoreResolved"
              => (observed'.op = "verification_resolved"
                  /\ observed'.sessionId = handshake[t].sessionId)
         /\ pc'[t] = "restoreAborted"
              => (observed'.op = "stopTask" /\ observed'.task = t)]_vars

\* C7: every verification_needed carries the sessionId of the task whose
\* planner emitted it
C7_NeededCarriesOwnSession ==
  \A t \in DOMAIN tasks :
    handshake[t].sessionId # "none" => handshake[t].sessionId = tasks[t].sessionId

\* the edges of pending -> running -> terminal; loading the store adds the
\* edge from pending to failed for a task interrupted in the queue
forward(a, b, err) ==
  \/ a = b
  \/ a = "pending" /\ b = "running"
  \/ a = "running" /\ b \in Terminal
  \/ a = "pending" /\ b = "failed" /\ err = "restart"

\* C8: the status of a task only moves forward along pending -> running ->
\* terminal: no step takes it from running to pending, from a terminal status
\* to running or pending, or from one terminal status to another
C8_StatusMovesForward ==
  [][\A t \in DOMAIN tasks :
       forward(tasks[t].status, tasks'[t].status, tasks'[t].error)]_vars

\* one task ran to completed, another was stopped and its job has ended,
\* and no job is left
C8_Witness ==
  \E t, u \in DOMAIN tasks :
    /\ tasks[t].status = "completed"
    /\ tasks[u].status = "cancelled"
    /\ pc[u] = "done"
    /\ active = {}
    /\ runningAborts = {}

\* C9: a terminal status is set at most once: once a task is terminal no
\* later step writes its status or its completedAt
C9_TerminalWrittenOnce ==
  [][\A t \in DOMAIN tasks :
       tasks[t].status \in Terminal =>
         /\ tasks'[t].status = tasks[t].status
         /\ tasks'[t].completedAt = tasks[t].completedAt]_vars

\* C10: completedAt is present exactly when the status is terminal, in
\* every state, the one right after loading the store included
C10_CompletedAtIffTerminal ==
  \A t \in DOMAIN tasks :
    (tasks[t].completedAt # 0) <=> (tasks[t].status \in Terminal)

\* the entries task t appended to the history of session s
RECURSIVE entriesOf(_, _)
entriesOf(t, h) ==
  IF h = <<>> THEN 0
  ELSE (IF Head(h) = t THEN 1 ELSE 0) + entriesOf(t, Tail(h))

historyEntries(t) ==
  [s \in Sessions |-> entriesOf(t, sessionHistory[s])]

exactlyOneRecord(t) ==
  /\ t \in memories
  /\ historyEntries(t) =
       [s \in Sessions |-> IF s = tasks[t].sessionId THEN 1 ELSE 0]

C12_NothingBeginsAfterStop ==
  [][\A t \in TaskIds :
       t \in aborted =>
         /\ pc'[t] = "planNextStep" => pc[t] = "planNextStep"
         /\ pc'[t] = "wait" => pc[t] = "wait"
         /\ pc'[t] = "browser" => pc[t] = "browser"
         /\ pc'[t] \in ExecutorPcs => pc'[t] = pc[t]
         /\ executorStep'[t] <= executorStep[t]]_vars

\* C13: every answer of an LLM call of a task (keyword extraction, plan-step,
\* Watchdog Tier 2, Executor decision, summarization) triggers the token-usage
\* callback exactly once: the task's tokenUsage grows by the prompt, cached
\* and completion tokens of the answer and the stats of the owning session by
\* the prompt+completion sum, and nothing else changes in either
C13_EveryAnswerCountedOnce ==
  [][observed'.op = "llm" =>
       /\ tokenUsage' = [tokenUsage EXCEPT
                           ![observed'.task] = addUsage(@, observed'.usage)]
       /\ stats' = [stats EXCEPT
                      ![observed'.sessionId] = addStats(@, observed'.usage)]]_vars

\* C14: no two tasks of the same session are running at the same time,
\* whatever the concurrency
C14_SessionRunsOneTask ==
  \A t, u \in runningTasks :
    tasks[t].sessionId = tasks[u].sessionId => t = u

\* the BrowserAgents created so far: each is held by the job that created it
createdBrowsers == {browser[t] : t \in DOMAIN tasks} \ {noBrowserAgent}

\* C15: at most one live BrowserAgent exists per session id: no BrowserAgent
\* of a session stays alive, its browser process running, alongside a newer
\* one created for the same session
C15_NoEarlierAgentAlive ==
  \A a \in liveBrowsers, b \in createdBrowsers :
    a.sessionId = b.sessionId => b.id <= a.id

\* C16: when the scheduler loads the persisted tasks at process start, every
\* task stored as pending or running becomes failed with the fixed restart
\* message, and every task stored with a terminal status is loaded unchanged
C16_LoadFailsInterrupted ==
  [][restart =>
       \A t \in DOMAIN tasks :
         IF tasks[t].status \in {"pending", "running"}
           THEN tasks'[t] = [tasks[t] EXCEPT !.status = "failed",
                                             !.error = "restart"]
           ELSE tasks'[t] = tasks[t]]_vars

\* after a restart: one task was interrupted while it ran, another had
\* completed before and is as it was stored
C16_Witness ==
  /\ active = {}
  /\ \E t, u \in DOMAIN tasks :
       /\ tasks[t].status = "failed"
       /\ tasks[t].error = "restart"
       /\ tasks[u].status = "completed"
       /\ tasks[u].error = "none"

\* C17: tasks are admitted in the order they were submitted: while the job
\* of a task A has not started, no task B submitted after A has left the
\* queue or has status running
C17_AdmittedInSubmissionOrder ==
  \A a, b \in DOMAIN tasks :
    a < b /\ pc[a] = "queued" =>
      pc[b] = "queued" /\ tasks[b].status # "running"

\* two jobs waited behind a running one, and the slot it freed went to the
\* one submitted first
C17_Witness ==
  /\ Len(tasks) = 3
  /\ concurrency = 1
  /\ tasks[1].status \in Terminal
  /\ tasks[2].status = "running"
  /\ pc[3] = "queued"
  /\ queue = <<3>>

\* where a job is between the intervention result and the end of the
\* handshake
HandshakePcs == {"switchGui", "waitForVerification", "restoreResolved"}

\* C18: an iteration of the Planner loop that ends in an intervention is not
\* counted: the Executor invocation leaves the counter as the iteration's
\* `currentStep++` left it, the intervention takes it back to its value
\* before the iteration, the handshake leaves it there, and once
\* verification_resolved has been taken the next turn of the job, if the
\* task was not stopped and the process still runs, is a new plan-step
C18_InterventionNotCounted ==
  [][\A t \in TaskIds :
       /\ pc[t] \in {"planNextStep", "browser"} \cup ExecutorPcs
            /\ pc'[t] \in {"browser"} \cup ExecutorPcs
            => currentStep'[t] = currentStep[t]
       /\ pc[t] \in {"browser"} \cup ExecutorPcs /\ pc'[t] = "switchGui"
            => currentStep[t] > 0 /\ currentStep'[t] = currentStep[t] - 1
       /\ pc[t] \in HandshakePcs /\ pc'[t] \in HandshakePcs
            => currentStep'[t] = currentStep[t]
       /\ pc[t] = "restoreResolved" /\ t \notin aborted
            /\ pc'[t] \notin {pc[t], "none"}
            => /\ pc'[t] = "planNextStep"
               /\ currentStep'[t] = currentStep[t] + 1]_vars

\* the handshake of a task's first iteration has been resolved: the counter
\* is back at zero
C18_Witness ==
  \E t \in DOMAIN tasks :
    /\ pc[t] = "restoreResolved"
    /\ t \notin aborted
    /\ handshake[t].resolved
    /\ currentStep[t] = 0

\* the turn of job t ends an iteration of the Planner loop, and neither with
\* finish nor with a fault of the call it waited for
iterationEnds(t) ==
  /\ pc[t] \in {"planNextStep", "browser", "wait"}
  /\ pc'[t] \notin {pc[t], "none", "browser", "wait", "switchGui"}
  /\ pc[t] = "planNextStep" =>
       tasks'[t].status # "completed" /\ tasks'[t].error # "llm fault"
  /\ pc[t] = "browser" => tasks'[t].error # "browser failed"

\* C19: a task whose Planner performs 15 counted iterations without issuing
\* finish, without Executor failure and without cancellation ends with
\* status failed and the max-steps error: the turn that ends the 15th
\* counted iteration ends the job so
C19_MaxStepsFails ==
  [][\A t \in TaskIds :
       /\ currentStep[t] = maxSteps
       /\ t \notin aborted
       /\ t \notin aborted'
       /\ iterationEnds(t)
       => /\ pc'[t] = "done"
          /\ tasks'[t].status = "failed"
          /\ tasks'[t].error = "max steps"]_vars

\* a task has failed on the step limit
C19_Witness ==
  \E t \in DOMAIN tasks :
    /\ pc[t] = "done"
    /\ tasks[t].status = "failed"
    /\ tasks[t].error = "max steps"
    /\ tasks[t].completedAt # 0

\* the entry of task a is in the session-history block of job b's prompts
inContext(a, b) ==
  \E i \in DOMAIN sessionHistoryContext[b] : sessionHistoryContext[b][i] = a

\* task b gets status running in this step
startsRunning(b) ==
  /\ b \in DOMAIN tasks'
  /\ tasks'[b].status = "running"
  /\ b \in DOMAIN tasks => tasks[b].status # "running"

\* the session-history block, once built, is the one of every plan-step
\* prompt of the job: no entry leaves it while the job lives
contextKept(b) ==
  \A a \in TaskIds :
    inContext(a, b) /\ pc'[b] \notin {"none", "done"} => inContext(a, b)'

rowOf(id) ==
  memoriesTable[CHOOSE i \in DOMAIN memoriesTable : memoriesTable[i].id = id]

stored(id) == \E i \in DOMAIN memoriesTable : memoriesTable[i].id = id

\* a stored row that a search for these keywords matches
matches(row, keywords) ==
  \E i \in DOMAIN keywords : like(row.keywords, keywords[i])

searched == lastCall.op = "search"

\* C21: whatever the store holds and whatever keywords are given, every
\* record MemoryService.search returns has status success, in what is
\* returned and in the row it was read from
C21_SearchReturnsSuccessOnly ==
  searched =>
    \A k \in DOMAIN lastCall.result :
      /\ lastCall.result[k].status = "success"
      /\ stored(lastCall.result[k].id)
      /\ rowOf(lastCall.result[k].id).status = "success"

\* a search returned records while a failed record matching its keywords
\* was stored
C21_Witness ==
  /\ searched
  /\ lastCall.result # <<>>
  /\ \E i \in DOMAIN memoriesTable :
       /\ memoriesTable[i].status = "failed"
       /\ matches(memoriesTable[i], lastCall.args)

\* the stored rows a search for these keywords may return
eligible(keywords) ==
  {i \in DOMAIN memoriesTable :
     /\ memoriesTable[i].status = "success"
     /\ matches(memoriesTable[i], keywords)}

returnedIds == {lastCall.result[k].id : k \in DOMAIN lastCall.result}

\* what a search returned is the newest of the eligible rows, newest first,
\* five of them at most
newestFirst ==
  LET result == lastCall.result
      rows == eligible(lastCall.args)
  IN  /\ Len(result) <= 5
      /\ Len(result) = min(5, Cardinality(rows))
      /\ Cardinality(returnedIds) = Len(result)
      /\ \A k \in DOMAIN result :
           \E i \in rows :
             /\ memoriesTable[i].id = result[k].id
             /\ memoriesTable[i].timestamp = result[k].timestamp
      /\ \A k, l \in DOMAIN result :
           k < l => result[k].timestamp >= result[l].timestamp
      /\ \A i \in rows :
           memoriesTable[i].id \notin returnedIds =>
             \A k \in DOMAIN result :
               memoriesTable[i].timestamp <= result[k].timestamp

\* a search for the keywords of the search before it, the table as it was
repeated ==
  /\ searched
  /\ lastCall'.op = "search"
  /\ lastCall'.args = lastCall.args
  /\ memoriesTable' = memoriesTable

lowered(keywords) == [i \in DOMAIN keywords |-> toLowerCase(keywords[i])]

\* C23: a record is stored with its keywords lowercased and joined by
\* commas, and a search that returns it yields the lowercased keywords
\* that were saved
C23_KeywordsRoundTrip ==
  searched =>
    \A k \in DOMAIN lastCall.result :
      LET id == lastCall.result[k].id
      IN  /\ rowOf(id).keywords = keywordsColumnLowered(savedKeywords[id])
          /\ lastCall.result[k].keywords = lowered(savedKeywords[id])

\* ---------------------------------------------------------------------
\* Bot keywords
\* ---------------------------------------------------------------------
storedKeywords == [i \in DOMAIN botKeywordsTable |-> botKeywordsTable[i].keyword]

normalizedDefaults ==
  [i \in DOMAIN DEFAULT_BOT_KEYWORDS |-> normalizeKeyword(DEFAULT_BOT_KEYWORDS[i])]

gotBotKeywords == lastCall.op = "getBotKeywords"

\* C24: after any calls of addBotKeyword, addBotKeywordsFromText and
\* deleteBotKeyword, getBotKeywords returns a list that is not empty; when
\* it found no row, it returns the defaults and has stored them again
C24_BotKeywordsNeverEmpty ==
  gotBotKeywords =>
    /\ lastCall.result # <<>>
    /\ lastCall.args = 0 =>
         /\ lastCall.result = normalizedDefaults
         /\ storedKeywords = normalizedDefaults

\* getBotKeywords was called after every keyword had been deleted
C24_Witness == gotBotKeywords /\ lastCall.args = 0

\* C25: the defaults are a floor: after any calls of addBotKeyword and
\* deleteBotKeyword, the list getBotKeywords returns holds every default
\* keyword
C25_DefaultsAreFloor ==
  gotBotKeywords => Range(normalizedDefaults) \subseteq Range(lastCall.result)

\* C26: after any calls of addBotKeyword, addBotKeywordsFromText and
\* deleteBotKeyword and any seeding of the defaults, every stored bot
\* keyword is non-empty, trimmed and lowercase, and none is stored twice
C26_StoredKeywordsNormalized ==
  /\ \A i \in DOMAIN storedKeywords :
       /\ storedKeywords[i] # <<>>
       /\ storedKeywords[i] = trim(storedKeywords[i])
       /\ storedKeywords[i] = toLowerCase(storedKeywords[i])
  /\ \A i, j \in DOMAIN storedKeywords :
       storedKeywords[i] = storedKeywords[j] => i = j

\* a default was deleted and stored again, and keywords given with blanks
\* and capitals, in a text and alone, are stored
C26_Witness ==
  /\ lastCall.op = "addBotKeywordsFromText"
  /\ <<"b", "o", "t">> \in Range(storedKeywords)
  /\ <<"r", "o", "b", "o", "t">> \in Range(storedKeywords)
  /\ <<"c", "h", "e", "c", "k">> \in Range(storedKeywords)
  /\ Len(storedKeywords) > 3
  /\ storedKeywords[Len(storedKeywords) - 3] =
       <<"c", "a", "p", "t", "c", "h", "a">>

\* the tokens addBotKeywordsFromText takes from the texts the Watchdogs
\* learn from, as it stores them
learntTokens ==
  UNION {{normalizeKeyword(token) : token \in Range(uniqueTokens(text))} :
           text \in {input.reason : input \in LearnInputs}
                  \cup {input.title : input \in LearnInputs}}

\* a stored token of a learnt text that the title holds
learntTokenIn(title) ==
  \E token \in learntTokens \cap Range(storedKeywords) :
    includes(toLowerCase(title), token)

\* C27: once addBotKeywordsFromText has stored its tokens, the next
\* keyword scan of any Watchdog on a snapshot whose title holds one of
\* them returns a reason, whether or not that Watchdog had loaded its
\* list before and whoever added the tokens
C27_ScanFindsLearntToken ==
  [][(lastCall'.op = "keywordScan" /\ learntTokenIn(lastCall'.args[2]))
       => lastCall'.result.reason # "null"]_vars

\* ---------------------------------------------------------------------
\* Cost
\* ---------------------------------------------------------------------
\* C28: while a session is listed its cost never decreases: every
\* onTokenUsage adds estimateCost(usage), which is not negative for any
\* usage whose cached tokens are part of its prompt tokens, whatever the
\* model
C28_CostNeverDecreases ==
  [][\A s \in Sessions :
       (cost[s].listed /\ cost'[s].listed) =>
         /\ cost'[s].cost >= cost[s].cost
         /\ (lastCall'.op = "onTokenUsage" /\ lastCall'.args = s
             /\ stats'[s] # stats[s]) =>
              /\ lastCall'.result >= 0
              /\ cost'[s].cost = cost[s].cost + lastCall'.result]_vars

\* a session has paid for a completion token at the price of gpt-4o-mini
\* and for a fresh and a cached prompt token at the price of gpt-4o, the
\* cached one last
C28_Witness ==
  /\ lastCall.op = "onTokenUsage"
  /\ lastCall.result = 1250
  /\ cost[lastCall.args].listed
  /\ cost[lastCall.args].cost = 1250 + 2500 + 600

\* ---------------------------------------------------------------------
\* Termination
\* ---------------------------------------------------------------------
submitted(t) == t \in DOMAIN tasks

\* C29: when every call returns and every verification_needed is answered
\* by verification_resolved, every submitted task reaches a terminal
\* status
C29_EveryTaskTerminates ==
  \A t \in TaskIds :
    submitted(t) ~> (submitted(t) /\ tasks[t].status \in Terminal)

\* the job of task t leaves the Executor after the page action of its
\* 15th iteration: no iteration ended with finish or answer, the Watchdog
\* never intervened, and nobody stopped the task
leavesLoop(t) ==
  /\ pc[t] = "performAction"
  /\ executorStep[t] = executorMaxSteps
  /\ pc'[t] \notin {pc[t], "none"}
  /\ t \notin aborted
  /\ t \notin aborted'

\* C30: one Executor invocation performs at most 15 iterations; when none
\* of them ends with finish or answer and the Watchdog never intervenes,
\* the invocation returns failed with the max-steps message, and the
\* Planner fails the task with it
C30_ExecutorMaxSteps ==
  /\ [](\A t \in TaskIds : executorStep[t] <= executorMaxSteps)
  /\ [][\A t \in TaskIds :
          leavesLoop(t) =>
            /\ pc'[t] = "done"
            /\ tasks'[t].status = "failed"
            /\ tasks'[t].error = "browser failed: max steps"]_vars

\* a task has failed on the step limit of its Executor
C30_Witness ==
  \E t \in DOMAIN tasks :
    /\ pc[t] = "done"
    /\ tasks[t].status = "failed"
    /\ tasks[t].error = "browser failed: max steps"

\* ---------------------------------------------------------------------
\* The Watchdog inside the Executor, the step records, the handshake
\* ---------------------------------------------------------------------
\* the turn of job t in which the keyword scan of the Watchdog hits: the
\* page state was awaited, and the Executor has returned intervention
keywordHit(t) == pc[t] = "getPageState" /\ pc'[t] = "switchGui"

\* C31: when the Tier-1 keyword scan hits, the Watchdog returns
\* intervention without LLM call and without reported token usage, and the
\* Executor returns intervention for that iteration before any decision
\* call, step record or page action: verification_needed is what follows
C31_KeywordHitWithoutLLM ==
  [][\A t \in TaskIds :
       keywordHit(t) =>
         /\ observed'.op # "llm"
         /\ tokenUsage' = tokenUsage
         /\ stats' = stats
         /\ steps' = steps
         /\ stepsFile' = stepsFile
         /\ executorStep'[t] = 0
         /\ handshake'[t].sessionId = planer.sessionId]_vars

\* the keyword scan of a task's first iteration has hit: the task has the
\* tokens of its two Planner calls and the step record of its plan-step
C31_Witness ==
  \E t \in DOMAIN tasks :
    /\ pc[t] = "switchGui"
    /\ tokenUsage[t].inputTokens = 6
    /\ steps[t] = <<[agent |-> "planer", step |-> 1]>>
    /\ observed.op = "none"

\* the turn of job t in which the Tier 2 call of the Watchdog fails, or
\* returns an empty or a malformed content
tier2Fails(t) ==
  /\ pc[t] = "watchdog"
  /\ observed'.op = "watchdog"
  /\ observed'.task = t
  /\ observed'.result \in {"empty", "malformed", "transport"}

\* C32: if the Tier 2 call of the Watchdog fails or returns an empty or a
\* malformed response, the Watchdog returns status failed with isStuck and
\* needsIntervention false, and the Executor goes on to the decision call
\* of the same iteration; no verification_needed is emitted
C32_WatchdogFailureGoesOn ==
  [][\A t \in TaskIds :
       tier2Fails(t) =>
         /\ observed'.response =
              [status |-> "failed", isStuck |-> FALSE,
               needsIntervention |-> FALSE]
         /\ pc'[t] = "getDecision"
         /\ executorStep'[t] = executorStep[t]
         /\ handshake' = handshake
         /\ isVerifying' = isVerifying
         /\ steps' = steps]_vars

\* the Watchdog of a task has returned failed after a content that does not
\* parse, and the decision call of the iteration is awaited
C32_Witness ==
  \E t \in DOMAIN tasks :
    /\ pc[t] = "getDecision"
    /\ observed.op = "watchdog"
    /\ observed.task = t
    /\ observed.result = "malformed"
    /\ observed.response.status = "failed"
    /\ executorStep[t] = 1
    /\ handshake[t] = NoHandshake

\* the keywords the table holds
storedIn(table) == {table[i].keyword : i \in DOMAIN table}

\* what an answer gives to learn: its newBlockKeywords and the tokens of
\* its reason and of the title, as addBotKeyword stores them
toLearn(data) ==
  {normalizeKeyword(keyword) :
     keyword \in Range(data.newBlockKeywords)
                 \cup Range(uniqueTokens(data.reason))
                 \cup Range(uniqueTokens(data.title))} \ {<<>>}

\* C33: whenever the Tier 2 answer has needsIntervention true, with any
\* newBlockKeywords, also none, the Watchdog stores every item of
\* newBlockKeywords and the tokens of the title and of the reason, and
\* drops its loaded list so that its next scan reloads
C33_InterventionAlwaysLearns ==
  [][(lastCall'.op = "selfLearning" /\ lastCall'.args[2].needsIntervention)
       => /\ toLearn(lastCall'.args[2]) \subseteq storedIn(botKeywordsTable')
          /\ ~watchdogs'[lastCall'.args[1]].keywordsLoaded]_vars

\* the turn in which the page-state read of job t has thrown
pageStateThrown(t) == observed'.op = "getPageState" /\ observed'.task = t

\* C34: when reading the page state fails with a detached-frame error the
\* read is retried exactly once; only if the retry fails too does the error
\* propagate, and the Executor invocation returns failed
C34_DetachedRetriedOnce ==
  [][\A t \in TaskIds :
       (pageStateThrown(t) /\ observed'.outcomes[1] = "detached") =>
         /\ observed'.evaluations = 2
         /\ observed'.outcomes[2] # "ok"
         /\ executorStep'[t] = 0]_vars

\* job t is between the switch to GUI mode and the end of its wait
inHandshake(t) == pc[t] \in {"switchGui", "waitForVerification"}

\* the wait of job t for verification_resolved ends in this turn, by a
\* matching resolution or by the abort of its signal
handshakeEnds(t) ==
  /\ pc[t] = "waitForVerification"
  /\ pc'[t] \in {"restoreResolved", "restoreAborted"}

\* at the end of the handshake of job t the flag of its browser is set back
\* to the value the task was started with
restoredAtEnd ==
  [][\A t \in TaskIds :
       handshakeEnds(t) => headless'[browser[t].id] = normalizedHeadless]_vars

\* C35: whenever the intervention handshake ends, by verification_resolved
\* or by cancellation, the headless flag of the browser has been set back
\* to the value the task was started with; from the switch to GUI mode
\* until that restore the flag is false
C35_HeadlessRestored ==
  /\ [](\A t \in TaskIds : inHandshake(t) => ~headless[browser[t].id])
  /\ restoredAtEnd

\* the listeners the jobs have on the EventBus and on their signals
listenerCount ==
  Cardinality({<<t, l>> \in TaskIds \X {"onResolved", "onAbort"} :
                 l \in handshake[t].listeners})

\* the jobs whose wait ends in this turn
ending == {t \in TaskIds : handshakeEnds(t)}

\* C36: when the wait for verification_resolved ends, by a matching
\* resolution or by cancellation, the listener on the EventBus and the
\* abort listener have both been removed: the number of listeners is back
\* at what it was before the handshake, and a job outside the wait has none
C36_ListenersRemoved ==
  /\ [](\A t \in TaskIds :
          pc[t] # "waitForVerification" => handshake[t].listeners = {})
  /\ [][/\ \A t \in ending : handshake'[t].listeners = {}
        /\ ending # {} =>
             listenerCount' = listenerCount - 2 * Cardinality(ending)]_vars

\* a job has left its wait after the abort of its signal, another after a
\* resolution, and no listener is left
C36_Witness ==
  /\ \E t \in DOMAIN tasks : pc[t] = "restoreAborted"
  /\ \E t \in DOMAIN tasks : pc[t] = "restoreResolved"
  /\ listenerCount = 0

\* ---------------------------------------------------------------------
\* Step records
\* ---------------------------------------------------------------------
\* the turn appends one record to the steps of task t
appends(t) ==
  /\ Len(steps'[t]) = Len(steps[t]) + 1
  /\ SubSeq(steps'[t], 1, Len(steps[t])) = steps[t]

appended(t) == steps'[t][Len(steps'[t])]

\* every Executor record follows the record produced before it: the first
\* of an invocation the plan-step that started the invocation, any other
\* the Executor record of the iteration before
productionOrder(records) ==
  \A i \in DOMAIN records :
    records[i].agent = "browser" =>
      /\ i > 1
      /\ records[i].step = 1 => records[i - 1].agent = "planer"
      /\ records[i].step > 1 =>
           records[i - 1] = [agent |-> "browser", step |-> records[i].step - 1]

\* C37: within one task the step records are only appended, never removed,
\* reordered or modified; every append is in tasks.json before the next
\* action of an agent begins; and the stored order is the order of
\* production, the plan-step before the Executor steps it set off
C37_StepsAppendOnly ==
  /\ [](stepsFile = steps)
  /\ [](\A t \in TaskIds : productionOrder(stepsFile[t]))
  /\ [][\A t \in TaskIds :
          /\ steps'[t] = steps[t] \/ appends(t)
          /\ appends(t) =>
               \/ /\ pc[t] = "planNextStep"
                  /\ appended(t) = [agent |-> "planer", step |-> currentStep[t]]
               \/ /\ pc[t] = "getDecision"
                  /\ appended(t) = [agent |-> "browser", step |-> executorStep[t]]]_vars

\* a task has the record of its plan-step and of the two iterations of the
\* Executor that followed, all three in tasks.json
C37_Witness ==
  \E t \in DOMAIN tasks :
    /\ steps[t] = <<[agent |-> "planer", step |-> 1],
                    [agent |-> "browser", step |-> 1],
                    [agent |-> "browser", step |-> 2]>>
    /\ stepsFile[t] = steps[t]
    /\ pc[t] = "performAction"

\* the task has reached a terminal status
terminal(t) == t \in DOMAIN tasks /\ tasks[t].status \in Terminal

\* C38: after a task has reached a terminal status, in particular after
\* stop has marked it cancelled, no step record is appended to it and its
\* tokenUsage does not change
C38_TerminalTaskIsFrozen ==
  [][\A t \in TaskIds :
       (terminal(t) /\ t \in DOMAIN tasks')
         => /\ steps'[t] = steps[t]
            /\ tokenUsage'[t] = tokenUsage[t]]_vars

\* the same for the step records alone
terminalStepsFrozen ==
  [][\A t \in TaskIds : terminal(t) => steps'[t] = steps[t]]_vars

\* the same for tokenUsage alone
terminalTokensFrozen ==
  [][\A t \in TaskIds : terminal(t) => tokenUsage'[t] = tokenUsage[t]]_vars

\* ---------------------------------------------------------------------
\* The isVerifying flag
\* ---------------------------------------------------------------------
\* a job of session s is between verification_needed and the end of
\* handleIntervention
waiting(s) ==
  \E t \in DOMAIN tasks :
    /\ tasks[t].sessionId = s
    /\ pc[t] \in HandshakePcs \cup {"restoreAborted"}

\* C39: the isVerifying flag of a session is true only while a task of
\* that session waits in the handshake: when the waiting task is cancelled
\* or ends otherwise without verification_resolved, the flag does not stay
\* true
C39_VerifyingOnlyWhileWaiting ==
  \A s \in Sessions : isVerifying[s] => waiting(s)

\* the step records of the Planner of task t, in stored order
planerSteps(t) == SelectSeq(steps[t], LAMBDA record : record.agent = "planer")

\* C40: within one task the step numbers of the Planner's step records
\* start at 1 and increase strictly: no two of them carry the same number,
\* also when iterations end in an intervention
C40_PlanerStepsIncrease ==
  \A t \in TaskIds :
    \A i \in DOMAIN planerSteps(t) :
      /\ planerSteps(t)[i].step >= 1
      /\ i > 1 => planerSteps(t)[i].step > planerSteps(t)[i - 1].step

====
